---- MODULE Spec2Model ----
(***************************************************************************)
(* Partitioned ingestion (PostgresHandler.insert_dataframe and its         *)
(* helpers) and the quarter filter/join runner                             *)
(* (step2_filter_holdings_by_quarter), run against one PostgreSQL store;   *)
(* and, each run by itself, generate_quarters, the date computations of    *)
(* both, _copy_dataframe, connect and disconnect; the generic operations  *)
(* of the handler (table_exists, drop_table, create_table,                 *)
(* insert_dataframe_regular) with step1_load_ticker_to_cusip; and the      *)
(* order of the calls in run_full_pipeline and in run_pipeline of the      *)
(* filter stage.                                                           *)
(*                                                                         *)
(* The store is modelled by what the statements of the code do in          *)
(* PostgreSQL under psycopg2's default (non-autocommit, READ COMMITTED)    *)
(* sessions: DDL is transactional, a statement sees what is committed plus *)
(* its own session's uncommitted work, CREATE TABLE .. PARTITION OF holds  *)
(* a self-conflicting lock on the parent until the transaction ends, a     *)
(* rollback discards all uncommitted work of the session, and after a      *)
(* failed statement the session's transaction is aborted until rollback.   *)
(***************************************************************************)
EXTENDS Integers, Sequences, FiniteSets, Bags, TLC

(***************************************************************************)
(* Bounds of the model.                                                    *)
(***************************************************************************)
\* rows in one batch handed to insert_dataframe
MaxRows == 2
\* statements the store rejects for a reason of its own in one behaviour
MaxFaults == 1
\* rows of the source table the runner reads
MaxSource == 2
\* calls of connect and disconnect one handler makes in one behaviour
MaxCalls == 3
\* the years after BaseYear a window token of generate_quarters can name
MaxSpan == 2

(***************************************************************************)
(* Program constants.                                                      *)
(***************************************************************************)
\* the year of the default window end 'Q2_2025'
EndYear == 2025
\* the year of the default window start 'Q2_2013'
BaseYear == 2013

\* the indices parser has 8 steps; its step 4 writes the output CSV
NumSteps == 8
OutputStep == 4

Inst == {1, 2}
Years == {BaseYear}
Quarters == 1..4
Pairs == Years \X Quarters
TableName == "t"
NoDate == [y |-> 0, m |-> 0, d |-> 0]
NoPair == <<0, 0>>

Date(y, m, d) == [y |-> y, m |-> m, d |-> d]

\* the order of ISO dates, 'YYYY-MM-DD'
DateKey(dt) == dt.y * 10000 + dt.m * 100 + dt.d

DateLE(a, b) == DateKey(a) <= DateKey(b)

DateLT(a, b) == DateKey(a) < DateKey(b)

(***************************************************************************)
(* Pure helpers of the handler.                                            *)
(***************************************************************************)
\* quarter_to_month of _add_period_start
quarter_to_month(quarter) ==
    CASE quarter = 1 -> 1
      [] quarter = 2 -> 4
      [] quarter = 3 -> 7
      [] quarter = 4 -> 10

\* a plausible slip: the quarter number is taken for the month
add_period_start_quarter_as_month(year, quarter) == Date(year, quarter, 1)

\* df["period_start"] = to_datetime(year + "-" + month + "-01")
add_period_start(year, quarter) == Date(year, quarter_to_month(quarter), 1)

\* the start_month dict of _ensure_partitions_exist
start_month(quarter) ==
    CASE quarter = 1 -> 1
      [] quarter = 2 -> 4
      [] quarter = 3 -> 7
      [] quarter = 4 -> 10

\* a plausible slip: the end of Q4 stays in the same year
partition_bounds_same_year(year, quarter) ==
    [lo |-> Date(year, start_month(quarter), 1),
     hi |-> IF quarter = 4
            THEN Date(year, 1, 1)
            ELSE Date(year, start_month(quarter) + 3, 1)]

\* start_date / end_date of _ensure_partitions_exist
partition_bounds(year, quarter) ==
    [lo |-> Date(year, start_month(quarter), 1),
     hi |-> IF quarter = 4
            THEN Date(year + 1, 1, 1)
            ELSE Date(year, start_month(quarter) + 3, 1)]

\* partition_name = f"{table_name}_{year}_q{quarter}"
partition_name(table_name, year, quarter) == <<table_name, year, "q", quarter>>

\* the partition the CREATE statement of one loop iteration declares
partition_of(table_name, p) ==
    [name |-> partition_name(table_name, p[1], p[2]),
     lo |-> partition_bounds(p[1], p[2]).lo,
     hi |-> partition_bounds(p[1], p[2]).hi]

RECURSIVE SumOver(_, _)
SumOver(f, S) ==
    IF S = {} THEN 0
    ELSE LET x == CHOOSE x \in S : TRUE
         IN f[x] + SumOver(f, S \ {x})

\* len(df)
Len_df(b) == SumOver(b, DOMAIN b)

\* the batches of at most n rows with (year, quarter) in P, as the number of
\* rows per (year, quarter)
Batches(P, n) ==
    {b \in [Pairs -> 0..n] : Len_df(b) <= n /\ \A p \in Pairs \ P : b[p] = 0}

\* the second handler's batches lie in the second half of the year (it is the
\* other process of each race; the first handler ranges over every quarter)
LatePairs == {p \in Pairs : p[2] >= 3}

BatchesOf(i) == IF i = 1 THEN Batches(Pairs, MaxRows) ELSE Batches(LatePairs, MaxRows)

EmptyBatch == [p \in Pairs |-> 0]

\* set(zip(df["year"], df["quarter"])), also the keys of df.groupby
pairs_of(b) == {p \in Pairs : b[p] > 0}

PairLT(p, q) == p[1] < q[1] \/ (p[1] = q[1] /\ p[2] < q[2])

\* groupby yields the groups in ascending key order
first_group(S) == CHOOSE p \in S : \A q \in S \ {p} : PairLT(p, q)

VARIABLES
    parent,         \* store: the parent table exists (committed)
    partitions,     \* store: the committed partitions [name, lo, hi]
    rows,           \* store: the committed rows of the parent table, a bag
    pend,           \* per session: partitions created and not yet committed
    faults,         \* statements the store has rejected for its own reasons
    connection,     \* per handler: "none" or "open"
    pc,             \* per handler: where insert_dataframe stands
    callsLeft,      \* per handler: calls of insert_dataframe still to make
    df,             \* per handler: the batch of the current call
    period_start,   \* per handler: the derived column, per (year, quarter)
    todo,           \* per handler: pairs the partition loop still visits
    cur,            \* per handler: the pair of the current iteration
    groups,         \* per handler: groups the load loop still visits
    total_inserted, \* per handler: the local of insert_dataframe
    ret,            \* per handler: the value the last call returned, -1 before
    hist            \* per handler: what the current call has done so far

ingestVars == <<parent, partitions, rows, pend, faults, connection, pc,
                callsLeft, df, period_start, todo, cur, groups,
                total_inserted, ret, hist>>

VARIABLES
    source,         \* store: rows of the source table, a count per row
    mapping,        \* store: the (cusip, ticker) rows of the mapping table
    target,         \* store: committed rows of the target table
    window,         \* runner: the tokens (start_quarter, end_quarter)
    session,        \* runner: its transaction, "idle", "open" or "aborted"
    uncommitted,    \* runner: rows inserted and not yet committed
    rpc,            \* runner: where step2_filter_holdings_by_quarter stands
    quarters,       \* runner: the list generate_quarters returned
    qi,             \* runner: the loop index i, from 1
    original_count, \* runner: locals of the current iteration
    filtered_count,
    inserted_count,
    total_original, \* runner: the cumulative totals
    total_filtered,
    total_target,   \* runner: its total_inserted
    result,         \* runner: "none", "success" or "failure"
    rhist,          \* runner: what the run has done so far
    gq,             \* generate_quarters run by itself: its position and locals
    calc,           \* the date computations run by themselves on one quarter
    api             \* per handler: connect and disconnect called by themselves

step2Vars == <<source, mapping, target, window, session, uncommitted, rpc,
               quarters, qi, original_count, filtered_count, inserted_count,
               total_original, total_filtered, total_target, result, rhist>>

VARIABLES
    relation,       \* store: the table the generic operations work on
    txn,            \* per handler: its transaction, "idle", "open", "aborted"
    at,             \* per handler: where its call of a generic operation is
    op,             \* per handler: the current call, or the last one
    pipe,           \* run_pipeline of the filter stage: position and record
    full            \* run_full_pipeline: position and record

extraVars == <<relation, txn, at, op, pipe, full>>

runnerVars == <<step2Vars, gq, calc, api, extraVars>>

vars == <<ingestVars, runnerVars>>

\* what is kept of the call before the current one: its batch, what it
\* returned, whether its _ensure_parent_table_exists returned, and whether the
\* whole call went through with no statement failing
NoPrev == [df |-> EmptyBatch, ret |-> -1, parentOk |-> FALSE, clean |-> FALSE]

NoHist ==
    [parentChecks |-> 0, partLoops |-> 0, loads |-> <<>>,
     created |-> {}, failed |-> {}, parentRace |-> FALSE,
     loadFailed |-> NoPair, loadedOk |-> {}, visited |-> {},
     before |-> [p \in Pairs |-> 0], partLoopsDone |-> 0,
     call |-> 0, prev |-> NoPrev]

\* the rows of handler i in the store
RowsOf(i) ==
    LET mine == {r \in BagToSet(rows) : r.owner = i}
    IN SumOver([r \in mine |-> CopiesIn(r, rows)], mine)

\* the rows of handler i with (year, quarter) p in the store
RowsOfPair(i, p) ==
    LET mine == {r \in BagToSet(rows) :
                    r.owner = i /\ r.year = p[1] /\ r.quarter = p[2]}
    IN SumOver([r \in mine |-> CopiesIn(r, rows)], mine)

\* another session holds the lock CREATE TABLE .. PARTITION OF takes on the
\* parent table: it has created a partition and not yet ended its transaction
LockedByOther(i) == \E j \in Inst \ {i} : pend[j] # {}

\* a plausible slip: the lookup is made in a schema that holds no table
table_in_catalog_never == FALSE

\* what SELECT EXISTS on information_schema.tables answers for the parent
table_in_catalog == parent

\* a plausible slip: the lookup of a partition never finds it
name_exists_never(i, name) == FALSE

\* what SELECT EXISTS on information_schema.tables answers to session i
name_exists(i, name) ==
    \E pt \in partitions \cup pend[i] : pt.name = name

\* the store routes a row to the partition whose range holds its key, and
\* rejects the row ("no partition of relation found for row") when none does
has_partition_for(i, dt) ==
    \E pt \in partitions \cup pend[i] : DateLE(pt.lo, dt) /\ DateLT(dt, pt.hi)

(***************************************************************************)
(* insert_dataframe, one action per statement it sends to the store.       *)
(***************************************************************************)
\* a plausible slip: the failure path reports what was loaded so far
insert_failed_reports_total(i) ==
    /\ pend' = [pend EXCEPT ![i] = {}]
    /\ ret' = [ret EXCEPT ![i] = total_inserted[i]]
    /\ pc' = [pc EXCEPT ![i] = "done"]

\* except Exception: log, self.connection.rollback(), return 0
insert_failed(i) ==
    /\ pend' = [pend EXCEPT ![i] = {}]
    /\ ret' = [ret EXCEPT ![i] = 0]
    /\ pc' = [pc EXCEPT ![i] = "done"]

\* if not self.connection and not self.connect(): return 0
\* df = self._add_period_start(df)
insert_dataframe(i, batches) ==
    /\ UNCHANGED runnerVars
    /\ pc[i] \in {"idle", "done"}
    /\ callsLeft[i] > 0
    /\ callsLeft' = [callsLeft EXCEPT ![i] = @ - 1]
    /\ \E b \in batches :
        /\ df' = [df EXCEPT ![i] = b]
        /\ hist' = [hist EXCEPT ![i] =
              [NoHist EXCEPT
                 !.before = [p \in Pairs |-> RowsOfPair(i, p)],
                 !.call = hist[i].call + 1,
                 !.prev = [df |-> df[i], ret |-> ret[i],
                           parentOk |-> hist[i].partLoops >= 1,
                           clean |-> /\ pc[i] = "done"
                                     /\ hist[i].partLoopsDone = 1
                                     /\ hist[i].failed = {}
                                     /\ hist[i].loadedOk = pairs_of(df[i])]]]
        /\ total_inserted' = [total_inserted EXCEPT ![i] = 0]
        /\ \/ /\ connection' = [connection EXCEPT ![i] = "open"]
              /\ period_start' = [period_start EXCEPT ![i] =
                    [p \in Pairs |-> IF b[p] > 0
                                     THEN add_period_start(p[1], p[2])
                                     ELSE NoDate]]
              /\ pc' = [pc EXCEPT ![i] = "parent_check"]
              /\ ret' = [ret EXCEPT ![i] = -1]
              /\ UNCHANGED faults
           \/ /\ connection[i] = "none"
              /\ faults < MaxFaults
              /\ faults' = faults + 1
              /\ connection' = [connection EXCEPT ![i] = "none"]
              /\ period_start' = [period_start EXCEPT ![i] =
                    [p \in Pairs |-> NoDate]]
              /\ pc' = [pc EXCEPT ![i] = "done"]
              /\ ret' = [ret EXCEPT ![i] = 0]
    /\ UNCHANGED <<parent, partitions, rows, pend, todo, cur, groups>>

\* a plausible slip: an existing parent table is taken to have its partitions
enter_partitions_skips_loop(i, h) ==
    /\ pc' = [pc EXCEPT ![i] = IF parent THEN "load" ELSE "partitions"]
    /\ todo' = [todo EXCEPT ![i] = IF parent THEN {} ELSE pairs_of(df[i])]
    /\ groups' = [groups EXCEPT ![i] = pairs_of(df[i])]
    /\ hist' = [hist EXCEPT ![i] =
                  [h EXCEPT !.partLoops = IF parent THEN @ ELSE @ + 1]]

\* _ensure_parent_table_exists returns and _ensure_partitions_exist starts:
\* partitions = set(zip(df["year"], df["quarter"]))
enter_partitions(i, h) ==
    /\ pc' = [pc EXCEPT ![i] = "partitions"]
    /\ todo' = [todo EXCEPT ![i] = pairs_of(df[i])]
    /\ groups' = groups
    /\ hist' = [hist EXCEPT ![i] = [h EXCEPT !.partLoops = @ + 1]]

\* _ensure_parent_table_exists: SELECT EXISTS on information_schema.tables
parent_check(i) ==
    /\ UNCHANGED runnerVars
    /\ pc[i] = "parent_check"
    /\ LET h == [hist[i] EXCEPT !.parentChecks = @ + 1]
       IN IF table_in_catalog
          THEN enter_partitions(i, h)
          ELSE /\ pc' = [pc EXCEPT ![i] = "parent_create"]
               /\ hist' = [hist EXCEPT ![i] = h]
               /\ UNCHANGED <<todo, groups>>
    /\ UNCHANGED <<parent, partitions, rows, pend, faults, connection,
                   callsLeft, df, period_start, cur, total_inserted, ret>>

\* _ensure_parent_table_exists: CREATE TABLE .. PARTITION BY RANGE, commit.
\* A second CREATE of the same name waits for the first one's commit and then
\* fails; the psycopg2.Error is not caught here and reaches the except clause
\* of insert_dataframe.
parent_create(i) ==
    /\ UNCHANGED runnerVars
    /\ pc[i] = "parent_create"
    /\ \/ /\ ~parent
          /\ parent' = TRUE
          /\ enter_partitions(i, hist[i])
          /\ UNCHANGED <<pend, ret, faults>>
       \/ /\ parent
          /\ insert_failed(i)
          /\ hist' = [hist EXCEPT ![i].parentRace = TRUE]
          /\ UNCHANGED <<parent, todo, groups, faults>>
       \/ /\ ~parent
          /\ faults < MaxFaults
          /\ faults' = faults + 1
          /\ insert_failed(i)
          /\ UNCHANGED <<parent, todo, groups, hist>>
    /\ UNCHANGED <<partitions, rows, connection, callsLeft, df, period_start,
                   cur, total_inserted>>

\* _ensure_partitions_exist, one iteration up to the answer of SELECT EXISTS.
\* Python fixes no order for the iteration of a set.
partition_check(i) ==
    /\ UNCHANGED runnerVars
    /\ pc[i] = "partitions"
    /\ \E p \in todo[i] :
        /\ hist' = [hist EXCEPT ![i].visited = @ \cup {p}]
        /\ IF name_exists(i, partition_of(TableName, p).name)
           THEN /\ todo' = [todo EXCEPT ![i] = @ \ {p}]
                /\ UNCHANGED <<pc, cur>>
           ELSE /\ cur' = [cur EXCEPT ![i] = p]
                /\ pc' = [pc EXCEPT ![i] = "partition_create"]
                /\ UNCHANGED todo
    /\ UNCHANGED <<parent, partitions, rows, pend, faults, connection,
                   callsLeft, df, period_start, groups, total_inserted, ret>>

\* a plausible slip: the psycopg2.Error is not caught in the loop
partition_create_failed_raises(i, reason) ==
    /\ insert_failed(i)
    /\ todo' = todo
    /\ hist' = [hist EXCEPT ![i].failed = @ \cup {<<cur[i], reason>>}]

\* except psycopg2.Error: log, self.connection.rollback(),
\* cursor = self.connection.cursor(); the loop goes on
partition_create_failed(i, reason) ==
    /\ pend' = [pend EXCEPT ![i] = {}]
    /\ todo' = [todo EXCEPT ![i] = @ \ {cur[i]}]
    /\ pc' = [pc EXCEPT ![i] = "partitions"]
    /\ ret' = ret
    /\ hist' = [hist EXCEPT ![i].failed = @ \cup {<<cur[i], reason>>}]

\* _ensure_partitions_exist: CREATE TABLE .. PARTITION OF .. FOR VALUES FROM
\* .. TO ..; it waits while another session holds the lock on the parent
partition_create(i) ==
    /\ UNCHANGED runnerVars
    /\ pc[i] = "partition_create"
    /\ ~LockedByOther(i)
    /\ LET pt == partition_of(TableName, cur[i])
       IN \/ /\ pt.name \in {x.name : x \in partitions}
             /\ partition_create_failed(i, "exists")
             /\ UNCHANGED faults
          \/ /\ pt.name \notin {x.name : x \in partitions}
             /\ pend' = [pend EXCEPT ![i] = @ \cup {pt}]
             /\ todo' = [todo EXCEPT ![i] = @ \ {cur[i]}]
             /\ pc' = [pc EXCEPT ![i] = "partitions"]
             /\ hist' = [hist EXCEPT ![i].created = @ \cup {cur[i]}]
             /\ UNCHANGED <<ret, faults>>
          \/ /\ pt.name \notin {x.name : x \in partitions}
             /\ faults < MaxFaults
             /\ faults' = faults + 1
             /\ partition_create_failed(i, "other")
    /\ UNCHANGED <<parent, partitions, rows, connection, callsLeft, df,
                   period_start, cur, groups, total_inserted>>

\* _ensure_partitions_exist: self.connection.commit() after the loop;
\* insert_dataframe goes on to df.groupby(["year", "quarter"])
partition_commit(i) ==
    /\ UNCHANGED runnerVars
    /\ pc[i] = "partitions"
    /\ todo[i] = {}
    /\ partitions' = partitions \cup pend[i]
    /\ pend' = [pend EXCEPT ![i] = {}]
    /\ pc' = [pc EXCEPT ![i] = "load"]
    /\ groups' = [groups EXCEPT ![i] = pairs_of(df[i])]
    /\ hist' = [hist EXCEPT ![i].partLoopsDone = @ + 1]
    /\ UNCHANGED <<parent, rows, faults, connection, callsLeft, df,
                   period_start, todo, cur, total_inserted, ret>>

\* a plausible slip: total_inserted = inserted
add_inserted_overwrites(total, inserted) == inserted

\* total_inserted += inserted
add_inserted(total, inserted) == total + inserted

\* the rows of one group as the store keeps them
chunk_rows(i, g) ==
    [r \in {[owner |-> i, year |-> g[1], quarter |-> g[2],
             period_start |-> period_start[i][g]]} |-> df[i][g]]

\* one iteration of the load loop: _copy_dataframe(table_name, chunk), that
\* is COPY .. FROM STDIN, commit, return len(df). COPY waits while another
\* session holds the lock on the parent.
copy_dataframe(i) ==
    /\ UNCHANGED runnerVars
    /\ pc[i] = "load"
    /\ groups[i] # {}
    /\ ~LockedByOther(i)
    /\ LET g == first_group(groups[i])
       IN \/ /\ has_partition_for(i, period_start[i][g])
             /\ rows' = rows (+) chunk_rows(i, g)
             /\ total_inserted' = [total_inserted EXCEPT ![i] =
                                     add_inserted(@, df[i][g])]
             /\ groups' = [groups EXCEPT ![i] = @ \ {g}]
             /\ hist' = [hist EXCEPT ![i].loads = Append(@, g),
                                     ![i].loadedOk = @ \cup {g}]
             /\ UNCHANGED <<pend, ret, pc, faults>>
          \/ /\ \/ /\ ~has_partition_for(i, period_start[i][g])
                   /\ UNCHANGED faults
                \/ /\ has_partition_for(i, period_start[i][g])
                   /\ faults < MaxFaults
                   /\ faults' = faults + 1
             /\ insert_failed(i)
             /\ hist' = [hist EXCEPT ![i].loads = Append(@, g),
                                     ![i].loadFailed = g]
             /\ UNCHANGED <<rows, total_inserted, groups>>
    /\ UNCHANGED <<parent, partitions, connection, callsLeft, df,
                   period_start, todo, cur>>

\* return total_inserted
insert_done(i) ==
    /\ UNCHANGED runnerVars
    /\ pc[i] = "load"
    /\ groups[i] = {}
    /\ ret' = [ret EXCEPT ![i] = total_inserted[i]]
    /\ pc' = [pc EXCEPT ![i] = "done"]
    /\ UNCHANGED <<parent, partitions, rows, pend, faults, connection,
                   callsLeft, df, period_start, todo, cur, groups,
                   total_inserted, hist>>

(***************************************************************************)
(* _copy_dataframe called by itself, with a chunk of one group or with an  *)
(* empty DataFrame.                                                        *)
(***************************************************************************)
\* the chunks of at most n rows, all of one (year, quarter)
Chunks(n) == {b \in [Pairs -> 0..n] : Cardinality(pairs_of(b)) <= 1}

\* a plausible slip: the test for an empty DataFrame is left out
df_empty_never(b) == FALSE

\* if df.empty
df_empty(b) == Len_df(b) = 0

\* _copy_dataframe(table_name, df): return 0 for an empty df; else COPY ..
\* FROM STDIN, commit, return len(df). An error of the store is not caught
\* here and reaches the caller.
copy_dataframe_call(i, chunks) ==
    /\ UNCHANGED runnerVars
    /\ pc[i] = "direct"
    /\ callsLeft[i] > 0
    /\ callsLeft' = [callsLeft EXCEPT ![i] = @ - 1]
    /\ \E b \in chunks :
        LET g == IF pairs_of(b) = {} THEN NoPair ELSE first_group(pairs_of(b))
            dates == [p \in Pairs |-> IF b[p] > 0
                                      THEN add_period_start(p[1], p[2])
                                      ELSE NoDate]
            stored == g = NoPair \/ has_partition_for(i, dates[g])
            chunk == IF g = NoPair
                     THEN EmptyBag
                     ELSE [r \in {[owner |-> i, year |-> g[1],
                                   quarter |-> g[2],
                                   period_start |-> dates[g]]} |-> b[g]]
        IN /\ df' = [df EXCEPT ![i] = b]
           /\ period_start' = [period_start EXCEPT ![i] = dates]
           /\ IF df_empty(b)
              THEN /\ ret' = [ret EXCEPT ![i] = 0]
                   /\ UNCHANGED <<rows, partitions, pend, faults, pc, hist>>
              ELSE /\ hist' = [hist EXCEPT ![i].loads = Append(@, g)]
                   /\ \/ /\ stored
                         /\ rows' = rows (+) chunk
                         /\ partitions' = partitions \cup pend[i]
                         /\ pend' = [pend EXCEPT ![i] = {}]
                         /\ ret' = [ret EXCEPT ![i] = Len_df(b)]
                         /\ UNCHANGED <<faults, pc>>
                      \/ /\ \/ ~stored /\ UNCHANGED faults
                            \/ /\ stored
                               /\ faults < MaxFaults
                               /\ faults' = faults + 1
                         /\ pc' = [pc EXCEPT ![i] = "raised"]
                         /\ UNCHANGED <<rows, partitions, pend, ret>>
    /\ UNCHANGED <<parent, connection, todo, cur, groups, total_inserted>>

(***************************************************************************)
(* connect and disconnect called by themselves.                            *)
(***************************************************************************)
\* what is kept of the calls: the last operation and the one before it, what
\* the last one returned, whether an exception left it, the sessions opened
\* so far (numbered from 1), the one the handler holds (0 for none) and those
\* that were closed
NoApi ==
    [op |-> "none", before |-> "none", ret |-> "none", raised |-> FALSE,
     opened |-> 0, live |-> 0, closed |-> {}]

\* the exceptions a failed psycopg2.connect raises: the server cannot be
\* reached or refuses the login, the timeout runs out, the parameters are
\* not accepted
ConnectErrors == {"OperationalError", "InterfaceError", "ProgrammingError"}

\* a plausible slip: except psycopg2.OperationalError
caught_operational_only(e) == e = "OperationalError"

\* except psycopg2.Error: every exception class of psycopg2 derives from it
caught_by_connect(e) ==
    e \in {"OperationalError", "InterfaceError", "ProgrammingError",
           "DatabaseError", "InternalError", "IntegrityError", "DataError",
           "NotSupportedError"}

\* connect(): self.connection = psycopg2.connect(..), return True;
\* except psycopg2.Error: log, self.connection = None, return False
connect(i) ==
    /\ UNCHANGED <<step2Vars, gq, calc, extraVars>>
    /\ pc[i] = "api"
    /\ callsLeft[i] > 0
    /\ callsLeft' = [callsLeft EXCEPT ![i] = @ - 1]
    /\ \/ /\ connection' = [connection EXCEPT ![i] = "open"]
          /\ api' = [api EXCEPT ![i] =
                        [@ EXCEPT !.op = "connect", !.before = api[i].op,
                                  !.ret = "True", !.raised = FALSE,
                                  !.opened = @ + 1,
                                  !.live = api[i].opened + 1]]
          /\ UNCHANGED pc
       \/ \E e \in ConnectErrors :
            IF caught_by_connect(e)
            THEN /\ connection' = [connection EXCEPT ![i] = "none"]
                 /\ api' = [api EXCEPT ![i] =
                               [@ EXCEPT !.op = "connect",
                                         !.before = api[i].op,
                                         !.ret = "False", !.raised = FALSE,
                                         !.live = 0]]
                 /\ UNCHANGED pc
            ELSE /\ api' = [api EXCEPT ![i] =
                               [@ EXCEPT !.op = "connect",
                                         !.before = api[i].op,
                                         !.ret = "none", !.raised = TRUE]]
                 /\ pc' = [pc EXCEPT ![i] = "raised"]
                 /\ UNCHANGED connection
    /\ UNCHANGED <<parent, partitions, rows, pend, faults, df, period_start,
                   todo, cur, groups, total_inserted, ret, hist>>

\* a plausible slip: close() is called with no test of self.connection
has_connection_always(c) == TRUE

\* if self.connection
has_connection(c) == c # "none"

\* disconnect(): if self.connection: close it, self.connection = None
disconnect(i) ==
    /\ UNCHANGED <<step2Vars, gq, calc, extraVars>>
    /\ pc[i] = "api"
    /\ callsLeft[i] > 0
    /\ callsLeft' = [callsLeft EXCEPT ![i] = @ - 1]
    /\ IF has_connection(connection[i])
       THEN /\ connection' = [connection EXCEPT ![i] = "none"]
            /\ api' = [api EXCEPT ![i] =
                          [@ EXCEPT !.op = "disconnect",
                                    !.before = api[i].op,
                                    !.ret = "None", !.raised = FALSE,
                                    !.closed = @ \cup {api[i].live},
                                    !.live = 0]]
       ELSE /\ api' = [api EXCEPT ![i] =
                          [@ EXCEPT !.op = "disconnect",
                                    !.before = api[i].op,
                                    !.ret = "None", !.raised = FALSE]]
            /\ UNCHANGED connection
    /\ UNCHANGED <<parent, partitions, rows, pend, faults, pc, df,
                   period_start, todo, cur, groups, total_inserted, ret, hist>>

(***************************************************************************)
(* generate_quarters and step2_filter_holdings_by_quarter.                 *)
(***************************************************************************)
Cusips == {"A", "B"}
Tickers == {"T1", "T2"}

\* a window token 'Q{q}_{YYYY}', as its characters
Token(q, y) == <<"Q", q, "_", y>>

Tokens == {Token(q, y) : q \in Quarters, y \in Years}
NoToken == <<"Q", 0, "_", 0>>

\* the QUARTER_STARTS dict
QUARTER_STARTS(q) ==
    CASE q = 1 -> 1
      [] q = 2 -> 4
      [] q = 3 -> 7
      [] q = 4 -> 10

\* a plausible slip: the end of Q4 stays in the same year
quarter_entry_same_year(year, q) ==
    [quarter |-> Token(q, year),
     period_start |-> Date(year, QUARTER_STARTS(q), 1),
     period_end |-> IF q = 4
                    THEN Date(year, 1, 1)
                    ELSE Date(year, QUARTER_STARTS(q) + 3, 1),
     year |-> year,
     quarter_num |-> q]

\* the list entry generate_quarters appends for (year, q)
quarter_entry(year, q) ==
    [quarter |-> Token(q, year),
     period_start |-> Date(year, QUARTER_STARTS(q), 1),
     period_end |-> IF q = 4
                    THEN Date(year + 1, 1, 1)
                    ELSE Date(year, QUARTER_STARTS(q) + 3, 1),
     year |-> year,
     quarter_num |-> q]

\* a plausible slip: the end of the window is left out
in_window_exclusive(year, q, end_y, end_q) ==
    year < end_y \/ (year = end_y /\ q < end_q)

\* while (year, q) <= (end_y, end_q): the order of Python tuples
in_window(year, q, end_y, end_q) ==
    year < end_y \/ (year = end_y /\ q <= end_q)

\* q += 1; if q > 4: q = 1; year += 1
next_q(year, q) == IF q + 1 > 4 THEN <<year + 1, 1>> ELSE <<year, q + 1>>

\* the while loop of generate_quarters, from (year, q) on
RECURSIVE quarters_from(_, _, _, _)
quarters_from(year, q, end_y, end_q) ==
    IF in_window(year, q, end_y, end_q)
    THEN <<quarter_entry(year, q)>>
            \o quarters_from(next_q(year, q)[1], next_q(year, q)[2],
                             end_y, end_q)
    ELSE <<>>

\* start_q, start_y = int(start[1]), int(start.split('_')[1]), and so for end
generate_quarters(start, end) == quarters_from(start[4], start[2], end[4], end[2])

\* the rows the source table can hold: the partitioned holdings table, whose
\* period_start is the one insert_dataframe derived
SourceRows ==
    {[cusip |-> c, year |-> p[1], quarter |-> p[2],
      period_start |-> add_period_start(p[1], p[2])] : c \in Cusips, p \in Pairs}

NoRows == [r \in SourceRows |-> 0]

\* the contents of at most n rows, as the number of copies of each row
Contents(n) == {b \in [SourceRows -> 0..n] : SumOver(b, SourceRows) <= n}

\* the mapping table: its primary key (cusip, ticker) makes it a set of pairs
Mappings == SUBSET (Cusips \X Tickers)

\* a plausible slip: period_start <= the end of the quarter
in_range_inclusive(r, q) ==
    DateLE(q.period_start, r.period_start) /\ DateLE(r.period_start, q.period_end)

\* WHERE period_start >= %s AND period_start < %s
in_range(r, q) ==
    DateLE(q.period_start, r.period_start) /\ DateLT(r.period_start, q.period_end)

\* the rows of the mapping table a source row joins to: ON h.cusip = t.cusip
join_matches(r) == Cardinality({m \in mapping : m[1] = r.cusip})

\* count_original_sql
count_original_sql(q) ==
    SumOver([r \in SourceRows |-> IF in_range(r, q) THEN source[r] ELSE 0],
            SourceRows)

\* the rows of SELECT .. FROM source h INNER JOIN mapping t ON h.cusip = t.cusip
\* WHERE h.period_start >= %s AND h.period_start < %s
joined_rows(q) ==
    [r \in SourceRows |->
        IF in_range(r, q) THEN source[r] * join_matches(r) ELSE 0]

\* count_filtered_sql
count_filtered_sql(q) == SumOver(joined_rows(q), SourceRows)

\* what a run has done so far: the quarters it attempted, those in which the
\* store rejected a statement, the figures of those it committed, the rows it
\* committed to the target; and, in a second run, the target the first run left
\* and the 'filter_rate' of the dict it returned
NoRunHist ==
    [attempted |-> {}, rejected |-> {}, stats |-> {}, committed |-> NoRows,
     run |-> 1, first |-> NoRows, filter_rate |-> [num |-> 0, den |-> 0]]

\* a plausible slip: the quotient is taken with no test of the divisor
keep_rate_unguarded(filtered, original) ==
    [num |-> filtered * 100, den |-> original]

\* (filtered / original * 100) if original > 0 else 0, as a fraction
keep_rate(filtered, original) ==
    IF original > 0
    THEN [num |-> filtered * 100, den |-> original]
    ELSE [num |-> 0, den |-> 1]

\* the for loop takes the next quarter, or ends
next_quarter ==
    /\ qi' = qi + 1
    /\ rpc' = IF qi + 1 > Len(quarters) THEN "summary" ELSE "count_original"

\* a plausible slip: the totals are added up before the statements are sent
quarter_failed_counted ==
    /\ next_quarter
    /\ total_original' = total_original + original_count
    /\ total_filtered' = total_filtered + filtered_count
    /\ total_target' = total_target + inserted_count
    /\ UNCHANGED <<original_count, filtered_count, inserted_count, result>>

\* except Exception as e: print, continue. Nothing is rolled back.
quarter_failed ==
    /\ next_quarter
    /\ UNCHANGED <<original_count, filtered_count, inserted_count,
                   total_original, total_filtered, total_target, result>>

\* a statement of quarter k raises: the session's transaction is aborted
\* ("current transaction is aborted, commands ignored until end of
\* transaction block"), or the store rejects the statement for a reason of
\* its own, which aborts the transaction
statement_raises(k) ==
    /\ \/ /\ session = "aborted"
          /\ rhist' = [rhist EXCEPT !.attempted = @ \cup {k}]
          /\ UNCHANGED faults
       \/ /\ session # "aborted"
          /\ faults < MaxFaults
          /\ faults' = faults + 1
          /\ rhist' = [rhist EXCEPT !.attempted = @ \cup {k},
                                    !.rejected = @ \cup {k}]
    /\ session' = "aborted"
    /\ uncommitted' = NoRows

\* a plausible slip: CREATE TABLE IF NOT EXISTS with no DROP before it
create_if_missing(t) == t

\* DROP TABLE IF EXISTS {target_table}; CREATE TABLE {target_table} (..)
drop_and_create(t) == NoRows

\* quarters = generate_quarters(..); DROP TABLE IF EXISTS, CREATE TABLE,
\* CREATE INDEX twice in one execute; commit
prepare_target ==
    /\ UNCHANGED <<gq, calc, api, extraVars>>
    /\ rpc = "ready"
    /\ quarters' = generate_quarters(window[1], window[2])
    /\ \/ /\ session # "aborted"
          /\ target' = drop_and_create(target)
          /\ session' = "idle"
          /\ qi' = 1
          /\ rpc' = IF Len(quarters') = 0 THEN "summary" ELSE "count_original"
          /\ UNCHANGED <<faults, result, rhist, uncommitted>>
       \/ /\ statement_raises(0)
          /\ result' = "failure"
          /\ rpc' = "done"
          /\ UNCHANGED <<target, qi>>
    /\ UNCHANGED <<source, mapping, window, original_count, filtered_count,
                   inserted_count, total_original, total_filtered,
                   total_target>>
    /\ UNCHANGED <<parent, partitions, rows, pend, connection, pc, callsLeft,
                   df, period_start, todo, cur, groups, total_inserted, ret,
                   hist>>

\* cursor.execute(count_original_sql, ..); original_count = fetchone()[0]
count_original ==
    /\ UNCHANGED <<gq, calc, api, extraVars>>
    /\ rpc = "count_original"
    /\ \/ /\ session # "aborted"
          /\ original_count' = count_original_sql(quarters[qi])
          /\ session' = "open"
          /\ rpc' = "count_filtered"
          /\ rhist' = [rhist EXCEPT !.attempted = @ \cup {qi}]
          /\ UNCHANGED <<faults, uncommitted, qi, filtered_count,
                         inserted_count, total_original, total_filtered,
                         total_target, result>>
       \/ /\ statement_raises(qi)
          /\ quarter_failed
    /\ UNCHANGED <<source, mapping, target, window, quarters>>
    /\ UNCHANGED <<parent, partitions, rows, pend, connection, pc, callsLeft,
                   df, period_start, todo, cur, groups, total_inserted, ret,
                   hist>>

\* cursor.execute(count_filtered_sql, ..); filtered_count = fetchone()[0]
count_filtered ==
    /\ UNCHANGED <<gq, calc, api, extraVars>>
    /\ rpc = "count_filtered"
    /\ \/ /\ session # "aborted"
          /\ filtered_count' = count_filtered_sql(quarters[qi])
          /\ rpc' = "filter_insert"
          /\ UNCHANGED <<faults, session, uncommitted, qi, original_count,
                         inserted_count, total_original, total_filtered,
                         total_target, result, rhist>>
       \/ /\ statement_raises(qi)
          /\ quarter_failed
    /\ UNCHANGED <<source, mapping, target, window, quarters>>
    /\ UNCHANGED <<parent, partitions, rows, pend, connection, pc, callsLeft,
                   df, period_start, todo, cur, groups, total_inserted, ret,
                   hist>>

\* cursor.execute(filter_insert_sql, ..); inserted_count = cursor.rowcount
filter_insert ==
    /\ UNCHANGED <<gq, calc, api, extraVars>>
    /\ rpc = "filter_insert"
    /\ \/ /\ session # "aborted"
          /\ uncommitted' = joined_rows(quarters[qi])
          /\ inserted_count' = SumOver(joined_rows(quarters[qi]), SourceRows)
          /\ rpc' = "commit"
          /\ UNCHANGED <<faults, session, qi, original_count, filtered_count,
                         total_original, total_filtered, total_target, result,
                         rhist>>
       \/ /\ statement_raises(qi)
          /\ quarter_failed
    /\ UNCHANGED <<source, mapping, target, window, quarters>>
    /\ UNCHANGED <<parent, partitions, rows, pend, connection, pc, callsLeft,
                   df, period_start, todo, cur, groups, total_inserted, ret,
                   hist>>

\* handler.connection.commit(); the totals are added up; the loop goes on
commit_quarter ==
    /\ UNCHANGED <<gq, calc, api, extraVars>>
    /\ rpc = "commit"
    /\ \/ /\ session # "aborted"
          /\ target' = [r \in SourceRows |-> target[r] + uncommitted[r]]
          /\ uncommitted' = NoRows
          /\ session' = "idle"
          /\ total_original' = total_original + original_count
          /\ total_filtered' = total_filtered + filtered_count
          /\ total_target' = total_target + inserted_count
          /\ rhist' = [rhist EXCEPT
                        !.stats = @ \cup
                            {[k |-> qi, original |-> original_count,
                              filtered |-> filtered_count,
                              inserted |-> inserted_count,
                              filter_rate |-> keep_rate(filtered_count,
                                                        original_count)]},
                        !.committed = [r \in SourceRows |->
                                          @[r] + uncommitted[r]]]
          /\ next_quarter
          /\ UNCHANGED <<faults, original_count, filtered_count,
                         inserted_count, result>>
       \/ /\ statement_raises(qi)
          /\ quarter_failed
          /\ UNCHANGED target
    /\ UNCHANGED <<source, mapping, window, quarters>>
    /\ UNCHANGED <<parent, partitions, rows, pend, connection, pc, callsLeft,
                   df, period_start, todo, cur, groups, total_inserted, ret,
                   hist>>

\* the summary is printed and {'success': True, ..} returned
step2_return ==
    /\ UNCHANGED <<gq, calc, api, extraVars>>
    /\ rpc = "summary"
    /\ result' = "success"
    /\ rpc' = "done"
    /\ rhist' = [rhist EXCEPT
                  !.filter_rate = keep_rate(total_filtered, total_original)]
    /\ UNCHANGED <<source, mapping, target, window, session, uncommitted,
                   quarters, qi, original_count, filtered_count,
                   inserted_count, total_original, total_filtered,
                   total_target>>
    /\ UNCHANGED ingestVars

\* another session commits while the runner runs: an ingest's COPY and commit
\* add a row to the source table, or a load of the mapping file adds a
\* (cusip, ticker) row to the mapping table. Each statement of the runner
\* reads what is committed when it starts (READ COMMITTED).
other_commit ==
    /\ UNCHANGED <<gq, calc, api, extraVars>>
    /\ rpc \notin {"off", "done"}
    /\ \/ /\ SumOver(source, SourceRows) < MaxSource
          /\ \E r \in SourceRows : source' = [source EXCEPT ![r] = @ + 1]
          /\ UNCHANGED mapping
       \/ /\ \E m \in (Cusips \X Tickers) \ mapping : mapping' = mapping \cup {m}
          /\ UNCHANGED source
    /\ UNCHANGED <<target, window, session, uncommitted, rpc, quarters, qi,
                   original_count, filtered_count, inserted_count,
                   total_original, total_filtered, total_target, result,
                   rhist>>
    /\ UNCHANGED ingestVars

\* the pipeline is run again after a run that went through: run_pipeline
\* makes a new handler and connects (the first run's session was closed by
\* its finally clause), and step2_filter_holdings_by_quarter starts over with
\* the same window
run_again ==
    /\ UNCHANGED <<gq, calc, api, extraVars>>
    /\ rpc = "done"
    /\ result = "success"
    /\ rhist.rejected = {}
    /\ rhist.run = 1
    /\ rpc' = "ready"
    /\ session' = "idle"
    /\ uncommitted' = NoRows
    /\ quarters' = <<>>
    /\ qi' = 0
    /\ original_count' = 0
    /\ filtered_count' = 0
    /\ inserted_count' = 0
    /\ total_original' = 0
    /\ total_filtered' = 0
    /\ total_target' = 0
    /\ result' = "none"
    /\ rhist' = [NoRunHist EXCEPT !.run = 2, !.first = target]
    /\ UNCHANGED <<source, mapping, target, window>>
    /\ UNCHANGED ingestVars

(***************************************************************************)
(* generate_quarters run by itself, one action per pass of its while loop, *)
(* on windows that span several years.                                     *)
(***************************************************************************)
\* the years a window token can name
WindowYears == BaseYear..(BaseYear + MaxSpan)

WindowTokens == {Token(k, y) : k \in Quarters, y \in WindowYears}

NoLoop == [pc |-> "off", year |-> 0, q |-> 0, end_y |-> 0, end_q |-> 0]

\* start_q, start_y = int(start[1]), int(start.split('_')[1]);
\* end_q, end_y likewise; quarters = []; year, q = start_y, start_q
gq_call ==
    /\ UNCHANGED <<calc, api, extraVars>>
    /\ gq.pc = "call"
    /\ gq' = [pc |-> "loop", year |-> window[1][4], q |-> window[1][2],
              end_y |-> window[2][4], end_q |-> window[2][2]]
    /\ quarters' = <<>>
    /\ UNCHANGED <<source, mapping, target, window, session, uncommitted, rpc,
                   qi, original_count, filtered_count, inserted_count,
                   total_original, total_filtered, total_target, result,
                   rhist>>
    /\ UNCHANGED ingestVars

\* one pass of the while loop: the entry is appended, (year, q) moves on
gq_step ==
    /\ UNCHANGED <<calc, api, extraVars>>
    /\ gq.pc = "loop"
    /\ in_window(gq.year, gq.q, gq.end_y, gq.end_q)
    /\ quarters' = Append(quarters, quarter_entry(gq.year, gq.q))
    /\ gq' = [gq EXCEPT !.year = next_q(gq.year, gq.q)[1],
                        !.q = next_q(gq.year, gq.q)[2]]
    /\ UNCHANGED <<source, mapping, target, window, session, uncommitted, rpc,
                   qi, original_count, filtered_count, inserted_count,
                   total_original, total_filtered, total_target, result,
                   rhist>>
    /\ UNCHANGED ingestVars

\* the loop condition is false: return quarters
gq_return ==
    /\ UNCHANGED <<calc, api, extraVars>>
    /\ gq.pc = "loop"
    /\ ~in_window(gq.year, gq.q, gq.end_y, gq.end_q)
    /\ gq' = [gq EXCEPT !.pc = "returned"]
    /\ UNCHANGED <<source, mapping, target, window, session, uncommitted, rpc,
                   quarters, qi, original_count, filtered_count,
                   inserted_count, total_original, total_filtered,
                   total_target, result, rhist>>
    /\ UNCHANGED ingestVars

(***************************************************************************)
(* The date computations of the handler and of generate_quarters, each run *)
(* by itself on one quarter and on the quarter that follows it.            *)
(***************************************************************************)
\* the years of the default window
CalendarYears == BaseYear..EndYear

NoBounds == [lo |-> NoDate, hi |-> NoDate]

NoEntry ==
    [quarter |-> NoToken, period_start |-> NoDate, period_end |-> NoDate,
     year |-> 0, quarter_num |-> 0]

NoCalc ==
    [year |-> 0, quarter |-> 0, done |-> {}, period_start |-> NoDate,
     part |-> NoBounds, part_next |-> NoBounds,
     entry |-> NoEntry, entry_next |-> NoEntry]

\* the quarter after (year, quarter) in the calendar
following(year, quarter) ==
    IF quarter = 4 THEN <<year + 1, 1>> ELSE <<year, quarter + 1>>

\* _add_period_start on a row of (year, quarter)
calc_period_start ==
    /\ calc.year # 0
    /\ "period_start" \notin calc.done
    /\ calc' = [calc EXCEPT
                  !.done = @ \cup {"period_start"},
                  !.period_start = add_period_start(calc.year, calc.quarter)]
    /\ UNCHANGED <<source, mapping, target, window, session, uncommitted, rpc,
                   quarters, qi, original_count, filtered_count,
                   inserted_count, total_original, total_filtered,
                   total_target, result, rhist, gq, api, extraVars>>
    /\ UNCHANGED ingestVars

\* start_date and end_date of _ensure_partitions_exist, for (year, quarter)
\* and for the quarter after it
calc_partitions ==
    /\ calc.year # 0
    /\ "partitions" \notin calc.done
    /\ LET nx == following(calc.year, calc.quarter)
       IN calc' = [calc EXCEPT
                     !.done = @ \cup {"partitions"},
                     !.part = partition_bounds(calc.year, calc.quarter),
                     !.part_next = partition_bounds(nx[1], nx[2])]
    /\ UNCHANGED <<source, mapping, target, window, session, uncommitted, rpc,
                   quarters, qi, original_count, filtered_count,
                   inserted_count, total_original, total_filtered,
                   total_target, result, rhist, gq, api, extraVars>>
    /\ UNCHANGED ingestVars

\* period_start and period_end of generate_quarters, for (year, quarter) and
\* for the quarter after it
calc_quarters ==
    /\ calc.year # 0
    /\ "quarters" \notin calc.done
    /\ LET nx == following(calc.year, calc.quarter)
       IN calc' = [calc EXCEPT
                     !.done = @ \cup {"quarters"},
                     !.entry = quarter_entry(calc.year, calc.quarter),
                     !.entry_next = quarter_entry(nx[1], nx[2])]
    /\ UNCHANGED <<source, mapping, target, window, session, uncommitted, rpc,
                   quarters, qi, original_count, filtered_count,
                   inserted_count, total_original, total_filtered,
                   total_target, result, rhist, gq, api, extraVars>>
    /\ UNCHANGED ingestVars

(***************************************************************************)
(* The generic operations of the handler (table_exists, drop_table,        *)
(* create_table, insert_dataframe_regular) called by themselves on one     *)
(* table name, and step1_load_ticker_to_cusip, which calls them.           *)
(***************************************************************************)
\* the table is not in the store
Absent == [exists |-> FALSE, key |-> FALSE, rows |-> EmptyBag]

\* what CREATE TABLE IF NOT EXISTS name (columns) of create_table makes: the
\* columns and their types, no constraint
GenericTable == [exists |-> TRUE, key |-> FALSE, rows |-> EmptyBag]

\* what the CREATE TABLE of step 1 makes: PRIMARY KEY (cusip, ticker)
KeyedTable == [exists |-> TRUE, key |-> TRUE, rows |-> EmptyBag]

\* the DataFrames of the calls: at most MaxRows rows of (cusip, ticker), the
\* first of which is the same in all of them
FrameRows == {<<"A", "T1">>, <<"B", "T1">>}
Frames ==
    {d \in UNION {[1..n -> FrameRows] : n \in 0..MaxRows} :
        d = <<>> \/ d[1] = <<"A", "T1">>}

\* the rows of a DataFrame as a bag
RECURSIVE FrameBag(_)
FrameBag(d) ==
    IF d = <<>> THEN EmptyBag
    ELSE FrameBag(SubSeq(d, 1, Len(d) - 1)) (+) SetToBag({d[Len(d)]})

\* df.drop_duplicates(subset=['cusip', 'ticker']): the first row of each
\* (cusip, ticker) is kept, in the order of the frame
RECURSIVE drop_duplicates(_)
drop_duplicates(d) ==
    IF d = <<>> THEN <<>>
    ELSE LET head == drop_duplicates(SubSeq(d, 1, Len(d) - 1))
             last == d[Len(d)]
         IN IF \E k \in 1..Len(head) : head[k] = last
            THEN head
            ELSE Append(head, last)

\* the messages of the errors of the store, as their words
RaceMessage ==
    <<"duplicate", "key", "value", "violates", "unique", "constraint",
      "pg_type_typname_nsp_index", "DETAIL:", "Key", "(typname,typnamespace)",
      "already", "exists">>
AbortedMessage ==
    <<"current", "transaction", "is", "aborted", "commands", "ignored",
      "until", "end", "of", "transaction", "block">>
OtherMessage == <<"could", "not", "extend", "file", "No", "space", "left">>

\* error_msg.lower(), word by word
lower(w) ==
    CASE w = "DETAIL:" -> "detail:"
      [] w = "Key" -> "key"
      [] w = "No" -> "no"
      [] OTHER -> w

\* 'already exists' in error_msg.lower()
already_exists(msg) ==
    \E k \in 1..(Len(msg) - 1) :
        lower(msg[k]) = "already" /\ lower(msg[k + 1]) = "exists"

\* the record of a call: which operation, its arguments, what it returned
\* (ret is "True", "False" or "int", with the number in n) or the exception
\* that left it; the statements it sent, whether the store rejected one for
\* a reason of its own, whether one was sent in an aborted transaction;
\* whether the handler had a session and the table existed when the call
\* began, whether an attempt to connect on demand succeeded; and, for
\* create_table, whether its CREATE waited for another session and whether
\* it made the table
NoCall ==
    [name |-> "none", mode |-> "append", df |-> <<>>, ret |-> "none",
     n |-> 0, raised |-> "none", sent |-> 0, rejected |-> FALSE,
     inAborted |-> FALSE, session |-> FALSE, existed |-> FALSE,
     connected |-> FALSE, waited |-> FALSE, created |-> FALSE,
     keyed |-> FALSE]

\* if not self.connection: self.connect() -- the connection afterwards;
\* connect() leaves None when psycopg2.connect fails
on_demand(i) ==
    IF connection[i] = "none" THEN {"none", "open"} ELSE {connection[i]}

\* the session's transaction after a connection attempt: a new session has
\* none
txn_of(i, c) ==
    IF connection[i] = "none" THEN "idle" ELSE txn[i]

\* another session has created the table and not yet ended its transaction
created_by_other(i) ==
    \E j \in Inst \ {i} : at[j] = "ct_commit" /\ op[j].created

\* what one operation does on connection c: the value it returns or the
\* exception that leaves it (r), the session's transaction afterwards, the
\* statements it sent, whether the store rejected one for a reason of its
\* own, whether one was sent in an aborted transaction
Outcome(r, t, sent, fault, inAborted) ==
    [r |-> r, txn |-> t, sent |-> sent, fault |-> fault,
     inAborted |-> inAborted]

\* table_exists: cursor() on the connection, SELECT to_regclass, fetchone;
\* except psycopg2.Error: log, return False
table_exists(i, c) ==
    IF c = "none"
    THEN {Outcome("AttributeError", txn_of(i, c), 0, FALSE, FALSE)}
    ELSE IF txn_of(i, c) = "aborted"
    THEN {Outcome("False", "aborted", 1, FALSE, TRUE)}
    ELSE {Outcome(IF relation.exists THEN "True" ELSE "False", "open", 1,
                  FALSE, FALSE)}
         \cup (IF faults < MaxFaults
               THEN {Outcome("False", "aborted", 1, TRUE, FALSE)}
               ELSE {})

\* drop_table: cursor() on the connection, DROP TABLE IF EXISTS, commit,
\* return True; except psycopg2.Error: rollback, return False
drop_table(i, c) ==
    IF c = "none"
    THEN {Outcome("AttributeError", txn_of(i, c), 0, FALSE, FALSE)}
    ELSE IF txn_of(i, c) = "aborted"
    THEN {Outcome("False", "idle", 1, FALSE, TRUE)}
    ELSE {Outcome("True", "idle", 2, FALSE, FALSE)}
         \cup (IF faults < MaxFaults
               THEN {Outcome("False", "idle", 1, TRUE, FALSE)}
               ELSE {})

\* the call record after an operation with outcome x
noted(o, c, x) ==
    [o EXCEPT !.sent = @ + x.sent,
              !.rejected = @ \/ x.fault,
              !.inAborted = @ \/ x.inAborted,
              !.connected = @ \/ (c = "open" /\ ~o.session)]

\* the call record of a call that begins
began(i, name, mode, d) ==
    [NoCall EXCEPT !.name = name, !.mode = mode, !.df = d,
                   !.session = connection[i] # "none",
                   !.existed = relation.exists]

\* what the generic operations leave alone
generic_frame ==
    /\ UNCHANGED <<parent, partitions, rows, pend, pc, df, period_start,
                   todo, cur, groups, total_inserted, ret, hist>>
    /\ UNCHANGED <<step2Vars, gq, calc, api, pipe, full>>

\* the effect of outcome x of an operation of handler i on the session
applied(i, c, x) ==
    /\ connection' = [connection EXCEPT ![i] = c]
    /\ txn' = [txn EXCEPT ![i] = x.txn]
    /\ faults' = IF x.fault THEN faults + 1 ELSE faults

\* table_exists called by the handler's user
table_exists_call(i) ==
    /\ at[i] = "ready"
    /\ callsLeft[i] > 0
    /\ callsLeft' = [callsLeft EXCEPT ![i] = @ - 1]
    /\ \E c \in on_demand(i) : \E x \in table_exists(i, c) :
          /\ applied(i, c, x)
          /\ op' = [op EXCEPT ![i] =
                [noted(began(i, "table_exists", "append", <<>>), c, x)
                    EXCEPT !.ret = IF x.r = "AttributeError"
                                   THEN "none" ELSE x.r,
                           !.raised = IF x.r = "AttributeError"
                                      THEN x.r ELSE "none"]]
    /\ UNCHANGED <<relation, at>>
    /\ generic_frame

\* drop_table called by the handler's user
drop_table_call(i) ==
    /\ at[i] = "ready"
    /\ callsLeft[i] > 0
    /\ callsLeft' = [callsLeft EXCEPT ![i] = @ - 1]
    /\ \E c \in on_demand(i) : \E x \in drop_table(i, c) :
          /\ applied(i, c, x)
          /\ relation' = IF x.r = "True" THEN Absent ELSE relation
          /\ op' = [op EXCEPT ![i] =
                [noted(began(i, "drop_table", "append", <<>>), c, x)
                    EXCEPT !.ret = IF x.r = "AttributeError"
                                   THEN "none" ELSE x.r,
                           !.raised = IF x.r = "AttributeError"
                                      THEN x.r ELSE "none"]]
    /\ UNCHANGED at
    /\ generic_frame

\* an operation called by the handler's user returns
returns(i, o, r, n) ==
    /\ at' = [at EXCEPT ![i] = "ready"]
    /\ op' = [op EXCEPT ![i] = [o EXCEPT !.ret = r, !.n = n]]

\* insert_dataframe_regular returns n: to the handler's user, or to step 1,
\* which then returns {'success': True, .., 'rows_inserted': n}
regular_returns(i, o, n) ==
    IF o.name = "step1"
    THEN returns(i, o, "success", n)
    ELSE returns(i, o, "int", n)

\* create_table returns r: to the handler's user, or to
\* insert_dataframe_regular, which does not look at r and goes on to
\* _copy_dataframe
create_table_returns(i, o, r) ==
    IF o.name = "create_table"
    THEN returns(i, o, r, 0)
    ELSE /\ at' = [at EXCEPT ![i] = "idr_copy"]
         /\ op' = [op EXCEPT ![i] = o]

\* create_table up to its table_exists: cursor() on the connection (with
\* none, the AttributeError is caught by except Exception, which returns
\* False), then return True if the table exists
create_table_lookup(i, o) ==
    /\ \E c \in on_demand(i) :
          IF c = "none"
          THEN /\ UNCHANGED <<connection, txn, faults>>
               /\ create_table_returns(i, o, "False")
          ELSE \E x \in table_exists(i, c) :
                  /\ applied(i, c, x)
                  /\ IF x.r = "True"
                     THEN create_table_returns(i, noted(o, c, x), "True")
                     ELSE /\ at' = [at EXCEPT ![i] = "ct_create"]
                          /\ op' = [op EXCEPT ![i] = noted(o, c, x)]
    /\ UNCHANGED relation
    /\ generic_frame

\* create_table called by the handler's user
create_table_call(i) ==
    /\ at[i] = "ready"
    /\ callsLeft[i] > 0
    /\ callsLeft' = [callsLeft EXCEPT ![i] = @ - 1]
    /\ create_table_lookup(i, began(i, "create_table", "append", <<>>))

\* create_table called by insert_dataframe_regular
regular_create(i) ==
    /\ at[i] = "ct_lookup"
    /\ UNCHANGED callsLeft
    /\ create_table_lookup(i, op[i])

\* except psycopg2.Error of create_table: rollback, then return True if the
\* message says 'already exists' and False if not
create_table_failed(i, o, msg) ==
    /\ txn' = [txn EXCEPT ![i] = "idle"]
    /\ create_table_returns(i, o, IF already_exists(msg) THEN "True"
                                  ELSE "False")

\* cursor.execute(CREATE TABLE IF NOT EXISTS ..). The statement waits while
\* another session has created the name and not ended its transaction; when
\* that session commits, the statement fails on the catalog's unique index;
\* with the table there before the statement began, it does nothing
create_table_create(i) ==
    /\ at[i] = "ct_create"
    /\ LET o == op[i]
           first == IF o.waited THEN 0 ELSE 1
       IN \/ /\ txn[i] = "aborted"
             /\ create_table_failed(i, [o EXCEPT !.sent = @ + 1,
                                                 !.inAborted = TRUE],
                                    AbortedMessage)
             /\ UNCHANGED faults
          \/ /\ txn[i] # "aborted"
             /\ created_by_other(i)
             /\ ~o.waited
             /\ op' = [op EXCEPT ![i] = [o EXCEPT !.sent = @ + 1,
                                                  !.waited = TRUE]]
             /\ UNCHANGED <<at, txn, faults>>
          \/ /\ txn[i] # "aborted"
             /\ ~created_by_other(i)
             /\ \/ /\ faults < MaxFaults
                   /\ faults' = faults + 1
                   /\ create_table_failed(i, [o EXCEPT !.sent = @ + first,
                                                       !.rejected = TRUE],
                                          OtherMessage)
                \/ /\ o.waited
                   /\ relation.exists
                   /\ create_table_failed(i, o, RaceMessage)
                   /\ UNCHANGED faults
                \/ /\ ~(o.waited /\ relation.exists)
                   /\ at' = [at EXCEPT ![i] = "ct_commit"]
                   /\ op' = [op EXCEPT ![i] =
                                [o EXCEPT !.sent = @ + first,
                                          !.created = ~relation.exists]]
                   /\ txn' = [txn EXCEPT ![i] = "open"]
                   /\ UNCHANGED faults
    /\ UNCHANGED <<relation, connection, callsLeft>>
    /\ generic_frame

\* self.connection.commit() of create_table, return True
create_table_commit(i) ==
    /\ at[i] = "ct_commit"
    /\ LET o == [op[i] EXCEPT !.sent = @ + 1]
       IN \/ /\ relation' = IF o.created THEN GenericTable ELSE relation
             /\ txn' = [txn EXCEPT ![i] = "idle"]
             /\ create_table_returns(i, o, "True")
             /\ UNCHANGED faults
          \/ /\ faults < MaxFaults
             /\ faults' = faults + 1
             /\ create_table_failed(i, [o EXCEPT !.rejected = TRUE,
                                                 !.created = FALSE],
                                    OtherMessage)
             /\ UNCHANGED relation
    /\ UNCHANGED <<connection, callsLeft>>
    /\ generic_frame

\* insert_dataframe_regular: if not self.connection: self.connect()
insert_dataframe_regular(i) ==
    /\ at[i] = "ready"
    /\ callsLeft[i] > 0
    /\ callsLeft' = [callsLeft EXCEPT ![i] = @ - 1]
    /\ \E mode \in {"append", "replace"}, d \in Frames, c \in on_demand(i) :
          /\ connection' = [connection EXCEPT ![i] = c]
          /\ txn' = [txn EXCEPT ![i] = txn_of(i, c)]
          /\ op' = [op EXCEPT ![i] =
                [began(i, "insert_dataframe_regular", mode, d)
                    EXCEPT !.connected = (c = "open"
                                          /\ connection[i] = "none")]]
          /\ at' = [at EXCEPT ![i] = IF mode = "replace" THEN "idr_drop"
                                     ELSE "idr_lookup"]
    /\ UNCHANGED <<relation, faults>>
    /\ generic_frame

\* if if_exists == "replace": self.drop_table(table_name); an exception
\* that leaves drop_table is caught by except Exception, which returns 0
regular_drop(i) ==
    /\ at[i] = "idr_drop"
    /\ \E c \in on_demand(i) : \E x \in drop_table(i, c) :
          /\ applied(i, c, x)
          /\ relation' = IF x.r = "True" THEN Absent ELSE relation
          /\ IF x.r = "AttributeError"
             THEN regular_returns(i, noted(op[i], c, x), 0)
             ELSE /\ at' = [at EXCEPT ![i] = "idr_lookup"]
                  /\ op' = [op EXCEPT ![i] = noted(op[i], c, x)]
    /\ UNCHANGED callsLeft
    /\ generic_frame

\* if not self.table_exists(table_name): self.create_table(table_name, df)
regular_lookup(i) ==
    /\ at[i] = "idr_lookup"
    /\ \E c \in on_demand(i) : \E x \in table_exists(i, c) :
          /\ applied(i, c, x)
          /\ CASE x.r = "AttributeError" ->
                    regular_returns(i, noted(op[i], c, x), 0)
               [] x.r = "True" ->
                    /\ at' = [at EXCEPT ![i] = "idr_copy"]
                    /\ op' = [op EXCEPT ![i] = noted(op[i], c, x)]
               [] x.r = "False" ->
                    /\ at' = [at EXCEPT ![i] = "ct_lookup"]
                    /\ op' = [op EXCEPT ![i] = noted(op[i], c, x)]
    /\ UNCHANGED <<relation, callsLeft>>
    /\ generic_frame

\* the primary key rejects the rows of d: two of them, or one of them and a
\* row of the table, have the same (cusip, ticker)
key_violated(d) ==
    LET all == relation.rows (+) FrameBag(d)
    IN \E k \in BagToSet(all) : CopiesIn(k, all) > 1

\* insert_count = self._copy_dataframe(table_name, df); return insert_count;
\* except Exception: log, return 0. _copy_dataframe returns 0 for an empty
\* frame and otherwise sends COPY and commits; nothing is rolled back when
\* it raises
regular_copy(i) ==
    /\ at[i] = "idr_copy"
    /\ LET o == op[i]
           sent1 == [o EXCEPT !.sent = @ + 1]
       IN IF o.df = <<>>
          THEN /\ regular_returns(i, o, 0)
               /\ UNCHANGED <<relation, txn, faults>>
          ELSE IF connection[i] = "none"
          THEN /\ regular_returns(i, o, 0)
               /\ UNCHANGED <<relation, txn, faults>>
          ELSE IF txn[i] = "aborted"
          THEN /\ regular_returns(i, [sent1 EXCEPT !.inAborted = TRUE], 0)
               /\ UNCHANGED <<relation, txn, faults>>
          ELSE IF ~relation.exists \/ (relation.key /\ key_violated(o.df))
          THEN /\ regular_returns(i, sent1, 0)
               /\ txn' = [txn EXCEPT ![i] = "aborted"]
               /\ UNCHANGED <<relation, faults>>
          ELSE \/ /\ relation' = [relation EXCEPT
                                    !.rows = @ (+) FrameBag(o.df)]
                  /\ txn' = [txn EXCEPT ![i] = "idle"]
                  /\ regular_returns(i, [o EXCEPT !.sent = @ + 2], Len(o.df))
                  /\ UNCHANGED faults
               \/ /\ faults < MaxFaults
                  /\ faults' = faults + 1
                  /\ txn' = [txn EXCEPT ![i] = "aborted"]
                  /\ regular_returns(i, [sent1 EXCEPT !.rejected = TRUE], 0)
                  /\ UNCHANGED relation
    /\ UNCHANGED <<connection, callsLeft>>
    /\ generic_frame

\* step1_load_ticker_to_cusip up to its call of insert_dataframe_regular:
\* DROP TABLE IF EXISTS and CREATE TABLE with PRIMARY KEY (cusip, ticker) in
\* one execute, commit (except Exception: return {'success': False}, with
\* no rollback), then drop_duplicates and
\* insert_dataframe_regular(df_insert, table_name, if_exists='replace')
step1_load_ticker_to_cusip(i) ==
    /\ at[i] = "ready"
    /\ callsLeft[i] > 0
    /\ callsLeft' = [callsLeft EXCEPT ![i] = @ - 1]
    /\ \E d \in Frames :
         LET o == began(i, "step1", "replace", drop_duplicates(d))
             sent1 == [o EXCEPT !.sent = @ + 1]
         IN IF connection[i] = "none"
            THEN /\ returns(i, o, "failure", 0)
                 /\ UNCHANGED <<relation, txn, faults>>
            ELSE IF txn[i] = "aborted"
            THEN /\ returns(i, [sent1 EXCEPT !.inAborted = TRUE],
                            "failure", 0)
                 /\ UNCHANGED <<relation, txn, faults>>
            ELSE \/ /\ relation' = KeyedTable
                    /\ txn' = [txn EXCEPT ![i] = "idle"]
                    /\ at' = [at EXCEPT ![i] = "idr_drop"]
                    /\ op' = [op EXCEPT ![i] = [o EXCEPT !.sent = @ + 2,
                                                         !.keyed = TRUE]]
                    /\ UNCHANGED faults
                 \/ /\ faults < MaxFaults
                    /\ faults' = faults + 1
                    /\ txn' = [txn EXCEPT ![i] = "aborted"]
                    /\ returns(i, [sent1 EXCEPT !.rejected = TRUE],
                               "failure", 0)
                    /\ UNCHANGED relation
    /\ UNCHANGED connection
    /\ generic_frame

(***************************************************************************)
(* run_full_pipeline: the steps of the indices parser (phase 1), then      *)
(* run_pipeline of the filter stage (phase 2). What a step does to its     *)
(* files and tables is left open; it ends well or in an exception.         *)
(***************************************************************************)
\* the steps of the indices parser
Steps == 1..NumSteps

\* run_pipeline of the filter stage has not been called: where it stands,
\* the handler's session ("none", "open", "closed"), what connect() answered,
\* how each step ended ("none" while it has not run; "success", "failure" for
\* the 'success' of the dict it returned; "raised"), and how run_pipeline
\* itself ended
NoPipe ==
    [pc |-> "off", session |-> "none", connect |-> "none",
     step1 |-> "none", step2 |-> "none", ret |-> "none"]

\* run_full_pipeline has not been called: where it stands, the step of the
\* indices parser that is next, how each step ended ("none", "skipped",
\* "success", "error"), whether the output CSV of phase 1 exists, how phase 1
\* and phase 2 ended
NoFull ==
    [pc |-> "off", step |-> 0, stats |-> [k \in Steps |-> "none"],
     output |-> FALSE, skip_filter |-> FALSE, phase1 |-> "none",
     phase2 |-> "none"]

\* what the pipelines leave alone
pipeline_frame ==
    /\ UNCHANGED <<step2Vars, gq, calc, api, relation, txn, at, op>>
    /\ UNCHANGED ingestVars

\* _run_step: a step in skip_step is skipped; otherwise func() is called, and
\* an exception that leaves it is caught and recorded as
\* {'success': False, ..}. Step 4 writes the output CSV. run_pipeline of the
\* indices parser goes on to the next step whatever the outcome
run_step ==
    /\ full.pc = "phase1"
    /\ full.step \in Steps
    /\ \E outcome \in {"skipped", "success", "error"} :
          full' = [full EXCEPT
                     !.stats[full.step] = outcome,
                     !.output = @ \/ (full.step = OutputStep
                                      /\ outcome = "success"),
                     !.step = @ + 1,
                     !.pc = IF full.step = NumSteps THEN "report"
                            ELSE "phase1"]
    /\ UNCHANGED pipe
    /\ pipeline_frame

\* if not handler.connect(): return {'success': False, ..}
connected(r) == r = "True"

\* a plausible slip: the 'success' of the step's dict is not looked at
succeeded_always(r) == TRUE

\* if not stats.get('success'): return stats
succeeded(r) == r = "success"

\* phase 2 as run_full_pipeline begins it: skipped with skip_filter, failed
\* with no output CSV, else run_filter_pipeline is called
begin_phase2(f) ==
    IF f.skip_filter
    THEN [f EXCEPT !.phase2 = "skipped", !.pc = "summary"]
    ELSE IF ~f.output
    THEN [f EXCEPT !.phase2 = "failure", !.pc = "summary"]
    ELSE [f EXCEPT !.pc = "phase2"]

\* _print_report, and the return of run_indices_pipeline to
\* run_full_pipeline: with no exception phase 1 is recorded as a success and
\* phase 2 begins; an exception (none leaves _run_step, so it comes from the
\* report itself, e.g. a write to the log that fails) is recorded as a
\* failure and run_full_pipeline returns
phase1_return ==
    /\ full.pc = "report"
    /\ \/ /\ full' = begin_phase2([full EXCEPT !.phase1 = "success"])
          /\ pipe' = IF full'.pc = "phase2"
                     THEN [NoPipe EXCEPT !.pc = "connect"]
                     ELSE pipe
       \/ /\ full' = [full EXCEPT !.phase1 = "failure", !.pc = "done"]
          /\ UNCHANGED pipe
    /\ pipeline_frame

\* run_pipeline of the filter stage: handler = PostgresHandler();
\* if not handler.connect(): return {'success': False, ..}
pipeline_connect ==
    /\ pipe.pc = "connect"
    /\ \E r \in {"True", "False"} :
          pipe' = [pipe EXCEPT
                     !.connect = r,
                     !.session = IF r = "True" THEN "open" ELSE "none",
                     !.pc = IF connected(r) THEN "step1" ELSE "done",
                     !.ret = IF connected(r) THEN "none" ELSE "failure"]
    /\ UNCHANGED full
    /\ pipeline_frame

\* try: step1_stats = step1_load_ticker_to_cusip(input_file, handler);
\* if not step1_stats.get('success'): return step1_stats
pipeline_step1 ==
    /\ pipe.pc = "step1"
    /\ \E r \in {"success", "failure", "raised"} :
          pipe' = [pipe EXCEPT
                     !.step1 = r,
                     !.pc = IF r # "raised" /\ succeeded(r) THEN "step2"
                            ELSE "finally",
                     !.ret = IF r = "raised" THEN "raised"
                             ELSE IF succeeded(r) THEN "none"
                             ELSE "failure"]
    /\ UNCHANGED full
    /\ pipeline_frame

\* step2_stats = step2_filter_holdings_by_quarter(handler, ..);
\* if not step2_stats.get('success'): return step2_stats
pipeline_step2 ==
    /\ pipe.pc = "step2"
    /\ \E r \in {"success", "failure", "raised"} :
          pipe' = [pipe EXCEPT
                     !.step2 = r,
                     !.pc = "finally",
                     !.ret = IF r = "raised" THEN "raised"
                             ELSE IF succeeded(r) THEN "success"
                             ELSE "failure"]
    /\ UNCHANGED full
    /\ pipeline_frame

\* finally: handler.disconnect(); then the return, or the exception, leaves
\* run_pipeline
pipeline_finally ==
    /\ pipe.pc = "finally"
    /\ pipe' = [pipe EXCEPT
                  !.session = IF has_connection(pipe.session) THEN "closed"
                              ELSE @,
                  !.pc = "done"]
    /\ UNCHANGED full
    /\ pipeline_frame

\* run_filter_pipeline has returned or raised: results['filterholdings'] is
\* filled in, with the 'success' of the dict or, in the except clause, False
phase2_return ==
    /\ full.pc = "phase2"
    /\ pipe.pc = "done"
    /\ full' = [full EXCEPT
                  !.phase2 = IF pipe.ret = "success" THEN "success"
                             ELSE "failure",
                  !.pc = "summary"]
    /\ UNCHANGED pipe
    /\ pipeline_frame

\* the summary is printed and results returned
full_return ==
    /\ full.pc = "summary"
    /\ full' = [full EXCEPT !.pc = "done"]
    /\ UNCHANGED pipe
    /\ pipeline_frame

\* the generic operations and the pipelines are not in play
ExtraOff ==
    /\ relation = Absent
    /\ txn = [i \in Inst |-> "idle"]
    /\ at = [i \in Inst |-> "off"]
    /\ op = [i \in Inst |-> NoCall]
    /\ pipe = NoPipe
    /\ full = NoFull

(***************************************************************************)
(* Two handler instances, each running one ingest against the same store.  *)
(***************************************************************************)
Init ==
    /\ parent \in BOOLEAN
    /\ partitions = {}
    /\ rows = EmptyBag
    /\ pend = [i \in Inst |-> {}]
    /\ faults = 0
    /\ connection = [i \in Inst |-> "none"]
    /\ pc = [i \in Inst |-> "idle"]
    /\ callsLeft = [i \in Inst |-> 1]
    /\ df = [i \in Inst |-> EmptyBatch]
    /\ period_start = [i \in Inst |-> [p \in Pairs |-> NoDate]]
    /\ todo = [i \in Inst |-> {}]
    /\ cur = [i \in Inst |-> NoPair]
    /\ groups = [i \in Inst |-> {}]
    /\ total_inserted = [i \in Inst |-> 0]
    /\ ret = [i \in Inst |-> -1]
    /\ hist = [i \in Inst |-> NoHist]
    /\ source = NoRows
    /\ mapping = {}
    /\ target = NoRows
    /\ window = <<NoToken, NoToken>>
    /\ session = "idle"
    /\ uncommitted = NoRows
    /\ rpc = "off"
    /\ quarters = <<>>
    /\ qi = 0
    /\ original_count = 0
    /\ filtered_count = 0
    /\ inserted_count = 0
    /\ total_original = 0
    /\ total_filtered = 0
    /\ total_target = 0
    /\ result = "none"
    /\ rhist = NoRunHist
    /\ gq = NoLoop
    /\ calc = NoCalc
    /\ api = [i \in Inst |-> NoApi]
    /\ ExtraOff

Next ==
    \E i \in Inst :
        \/ insert_dataframe(i, BatchesOf(i))
        \/ parent_check(i)
        \/ parent_create(i)
        \/ partition_check(i)
        \/ partition_create(i)
        \/ partition_commit(i)
        \/ copy_dataframe(i)
        \/ insert_done(i)

Spec == Init /\ [][Next]_vars

(***************************************************************************)
(* One run of the quarter filter/join runner on a connected handler, over  *)
(* any content of the source and mapping tables and any window.            *)
(***************************************************************************)
InitRunner ==
    /\ parent = TRUE
    /\ partitions = {}
    /\ rows = EmptyBag
    /\ pend = [i \in Inst |-> {}]
    /\ faults = 0
    /\ connection = [i \in Inst |-> "none"]
    /\ pc = [i \in Inst |-> "idle"]
    /\ callsLeft = [i \in Inst |-> 0]
    /\ df = [i \in Inst |-> EmptyBatch]
    /\ period_start = [i \in Inst |-> [p \in Pairs |-> NoDate]]
    /\ todo = [i \in Inst |-> {}]
    /\ cur = [i \in Inst |-> NoPair]
    /\ groups = [i \in Inst |-> {}]
    /\ total_inserted = [i \in Inst |-> 0]
    /\ ret = [i \in Inst |-> -1]
    /\ hist = [i \in Inst |-> NoHist]
    /\ source \in Contents(MaxSource)
    /\ mapping \in Mappings
    /\ target = NoRows
    /\ window \in Tokens \X Tokens
    /\ session = "idle"
    /\ uncommitted = NoRows
    /\ rpc = "ready"
    /\ quarters = <<>>
    /\ qi = 0
    /\ original_count = 0
    /\ filtered_count = 0
    /\ inserted_count = 0
    /\ total_original = 0
    /\ total_filtered = 0
    /\ total_target = 0
    /\ result = "none"
    /\ rhist = NoRunHist
    /\ gq = NoLoop
    /\ calc = NoCalc
    /\ api = [i \in Inst |-> NoApi]
    /\ ExtraOff

NextRunner ==
    \/ prepare_target
    \/ count_original
    \/ count_filtered
    \/ filter_insert
    \/ commit_quarter
    \/ step2_return

SpecRunner == InitRunner /\ [][NextRunner]_vars

(***************************************************************************)
(* The same run while other sessions commit to the source and mapping      *)
(* tables.                                                                 *)
(***************************************************************************)
NextShared ==
    \/ NextRunner
    \/ other_commit

SpecShared == InitRunner /\ [][NextShared]_vars

(***************************************************************************)
(* Two runs of the runner, one after the other, on unchanged source and    *)
(* mapping tables.                                                         *)
(***************************************************************************)
NextRerun ==
    \/ NextRunner
    \/ run_again

SpecRerun == InitRunner /\ [][NextRerun]_vars

(***************************************************************************)
(* generate_quarters called on any pair of well-formed tokens. The call    *)
(* runs by itself, so a pass that can be made is made.                     *)
(***************************************************************************)
InitQuarters ==
    /\ parent = TRUE
    /\ partitions = {}
    /\ rows = EmptyBag
    /\ pend = [i \in Inst |-> {}]
    /\ faults = 0
    /\ connection = [i \in Inst |-> "none"]
    /\ pc = [i \in Inst |-> "idle"]
    /\ callsLeft = [i \in Inst |-> 0]
    /\ df = [i \in Inst |-> EmptyBatch]
    /\ period_start = [i \in Inst |-> [p \in Pairs |-> NoDate]]
    /\ todo = [i \in Inst |-> {}]
    /\ cur = [i \in Inst |-> NoPair]
    /\ groups = [i \in Inst |-> {}]
    /\ total_inserted = [i \in Inst |-> 0]
    /\ ret = [i \in Inst |-> -1]
    /\ hist = [i \in Inst |-> NoHist]
    /\ source = NoRows
    /\ mapping = {}
    /\ target = NoRows
    /\ window \in WindowTokens \X WindowTokens
    /\ session = "idle"
    /\ uncommitted = NoRows
    /\ rpc = "off"
    /\ quarters = <<>>
    /\ qi = 0
    /\ original_count = 0
    /\ filtered_count = 0
    /\ inserted_count = 0
    /\ total_original = 0
    /\ total_filtered = 0
    /\ total_target = 0
    /\ result = "none"
    /\ rhist = NoRunHist
    /\ gq = [NoLoop EXCEPT !.pc = "call"]
    /\ calc = NoCalc
    /\ api = [i \in Inst |-> NoApi]
    /\ ExtraOff

NextQuarters ==
    \/ gq_call
    \/ gq_step
    \/ gq_return

SpecQuarters == InitQuarters /\ [][NextQuarters]_vars /\ WF_vars(NextQuarters)

(***************************************************************************)
(* The date computations on any quarter of the years of the default        *)
(* window.                                                                 *)
(***************************************************************************)
InitCalendar ==
    /\ parent = TRUE
    /\ partitions = {}
    /\ rows = EmptyBag
    /\ pend = [i \in Inst |-> {}]
    /\ faults = 0
    /\ connection = [i \in Inst |-> "none"]
    /\ pc = [i \in Inst |-> "idle"]
    /\ callsLeft = [i \in Inst |-> 0]
    /\ df = [i \in Inst |-> EmptyBatch]
    /\ period_start = [i \in Inst |-> [p \in Pairs |-> NoDate]]
    /\ todo = [i \in Inst |-> {}]
    /\ cur = [i \in Inst |-> NoPair]
    /\ groups = [i \in Inst |-> {}]
    /\ total_inserted = [i \in Inst |-> 0]
    /\ ret = [i \in Inst |-> -1]
    /\ hist = [i \in Inst |-> NoHist]
    /\ source = NoRows
    /\ mapping = {}
    /\ target = NoRows
    /\ window = <<NoToken, NoToken>>
    /\ session = "idle"
    /\ uncommitted = NoRows
    /\ rpc = "off"
    /\ quarters = <<>>
    /\ qi = 0
    /\ original_count = 0
    /\ filtered_count = 0
    /\ inserted_count = 0
    /\ total_original = 0
    /\ total_filtered = 0
    /\ total_target = 0
    /\ result = "none"
    /\ rhist = NoRunHist
    /\ gq = NoLoop
    /\ \E y \in CalendarYears, k \in Quarters :
          calc = [NoCalc EXCEPT !.year = y, !.quarter = k]
    /\ api = [i \in Inst |-> NoApi]
    /\ ExtraOff

NextCalendar ==
    \/ calc_period_start
    \/ calc_partitions
    \/ calc_quarters

SpecCalendar == InitCalendar /\ [][NextCalendar]_vars

(***************************************************************************)
(* One handler calling insert_dataframe twice, one call after the other,   *)
(* on a store no other session writes to.                                  *)
(***************************************************************************)
\* the runner and the computations run by themselves are not in play
StagesOff ==
    /\ source = NoRows
    /\ mapping = {}
    /\ target = NoRows
    /\ window = <<NoToken, NoToken>>
    /\ session = "idle"
    /\ uncommitted = NoRows
    /\ rpc = "off"
    /\ quarters = <<>>
    /\ qi = 0
    /\ original_count = 0
    /\ filtered_count = 0
    /\ inserted_count = 0
    /\ total_original = 0
    /\ total_filtered = 0
    /\ total_target = 0
    /\ result = "none"
    /\ rhist = NoRunHist
    /\ gq = NoLoop
    /\ calc = NoCalc
    /\ api = [i \in Inst |-> NoApi]

\* nor are the generic operations and the pipelines
RunnerOff ==
    /\ StagesOff
    /\ ExtraOff

InitTwice ==
    /\ parent \in BOOLEAN
    /\ partitions = {}
    /\ rows = EmptyBag
    /\ pend = [i \in Inst |-> {}]
    /\ faults = 0
    /\ connection = [i \in Inst |-> "none"]
    /\ pc = [i \in Inst |-> "idle"]
    /\ callsLeft = [i \in Inst |-> IF i = 1 THEN 2 ELSE 0]
    /\ df = [i \in Inst |-> EmptyBatch]
    /\ period_start = [i \in Inst |-> [p \in Pairs |-> NoDate]]
    /\ todo = [i \in Inst |-> {}]
    /\ cur = [i \in Inst |-> NoPair]
    /\ groups = [i \in Inst |-> {}]
    /\ total_inserted = [i \in Inst |-> 0]
    /\ ret = [i \in Inst |-> -1]
    /\ hist = [i \in Inst |-> NoHist]
    /\ RunnerOff

SpecTwice == InitTwice /\ [][Next]_vars

(***************************************************************************)
(* A connected handler calling _copy_dataframe by itself, twice, on a      *)
(* parent table that has some of the partitions.                           *)
(***************************************************************************)
InitLoad ==
    /\ parent = TRUE
    /\ partitions \in SUBSET {partition_of(TableName, p) : p \in Pairs}
    /\ rows = EmptyBag
    /\ pend = [i \in Inst |-> {}]
    /\ faults = 0
    /\ connection = [i \in Inst |-> IF i = 1 THEN "open" ELSE "none"]
    /\ pc = [i \in Inst |-> IF i = 1 THEN "direct" ELSE "idle"]
    /\ callsLeft = [i \in Inst |-> IF i = 1 THEN 2 ELSE 0]
    /\ df = [i \in Inst |-> EmptyBatch]
    /\ period_start = [i \in Inst |-> [p \in Pairs |-> NoDate]]
    /\ todo = [i \in Inst |-> {}]
    /\ cur = [i \in Inst |-> NoPair]
    /\ groups = [i \in Inst |-> {}]
    /\ total_inserted = [i \in Inst |-> 0]
    /\ ret = [i \in Inst |-> -1]
    /\ hist = [i \in Inst |-> NoHist]
    /\ RunnerOff

NextLoad == \E i \in Inst : copy_dataframe_call(i, Chunks(MaxRows))

SpecLoad == InitLoad /\ [][NextLoad]_vars

(***************************************************************************)
(* Two handlers, each making any sequence of connect and disconnect calls. *)
(***************************************************************************)
InitSession ==
    /\ parent = TRUE
    /\ partitions = {}
    /\ rows = EmptyBag
    /\ pend = [i \in Inst |-> {}]
    /\ faults = 0
    /\ connection = [i \in Inst |-> "none"]
    /\ pc = [i \in Inst |-> "api"]
    /\ callsLeft = [i \in Inst |-> MaxCalls]
    /\ df = [i \in Inst |-> EmptyBatch]
    /\ period_start = [i \in Inst |-> [p \in Pairs |-> NoDate]]
    /\ todo = [i \in Inst |-> {}]
    /\ cur = [i \in Inst |-> NoPair]
    /\ groups = [i \in Inst |-> {}]
    /\ total_inserted = [i \in Inst |-> 0]
    /\ ret = [i \in Inst |-> -1]
    /\ hist = [i \in Inst |-> NoHist]
    /\ RunnerOff

NextSession ==
    \E i \in Inst :
        \/ connect(i)
        \/ disconnect(i)

SpecSession == InitSession /\ [][NextSession]_vars

(***************************************************************************)
(* A handler with no session making any sequence of calls of the generic   *)
(* operations and of step 1, while a second handler calls create_table on  *)
(* the same table name.                                                    *)
(***************************************************************************)
InitTables ==
    /\ parent = TRUE
    /\ partitions = {}
    /\ rows = EmptyBag
    /\ pend = [i \in Inst |-> {}]
    /\ faults = 0
    /\ connection = [i \in Inst |-> "none"]
    /\ pc = [i \in Inst |-> "idle"]
    /\ callsLeft = [i \in Inst |-> IF i = 1 THEN MaxCalls - 1 ELSE 1]
    /\ df = [i \in Inst |-> EmptyBatch]
    /\ period_start = [i \in Inst |-> [p \in Pairs |-> NoDate]]
    /\ todo = [i \in Inst |-> {}]
    /\ cur = [i \in Inst |-> NoPair]
    /\ groups = [i \in Inst |-> {}]
    /\ total_inserted = [i \in Inst |-> 0]
    /\ ret = [i \in Inst |-> -1]
    /\ hist = [i \in Inst |-> NoHist]
    /\ StagesOff
    /\ relation \in {Absent, GenericTable}
    /\ txn = [i \in Inst |-> "idle"]
    /\ at = [i \in Inst |-> "ready"]
    /\ op = [i \in Inst |-> NoCall]
    /\ pipe = NoPipe
    /\ full = NoFull

NextTables ==
    \/ table_exists_call(1)
    \/ drop_table_call(1)
    \/ insert_dataframe_regular(1)
    \/ regular_drop(1)
    \/ regular_lookup(1)
    \/ regular_create(1)
    \/ regular_copy(1)
    \/ step1_load_ticker_to_cusip(1)
    \/ \E i \in Inst :
          \/ create_table_call(i)
          \/ create_table_create(i)
          \/ create_table_commit(i)

SpecTables == InitTables /\ [][NextTables]_vars

(***************************************************************************)
(* One call of run_full_pipeline, with any steps skipped, with or without  *)
(* skip_filter, and with or without an output CSV left by an earlier run.  *)
(***************************************************************************)
InitFull ==
    /\ parent = TRUE
    /\ partitions = {}
    /\ rows = EmptyBag
    /\ pend = [i \in Inst |-> {}]
    /\ faults = 0
    /\ connection = [i \in Inst |-> "none"]
    /\ pc = [i \in Inst |-> "idle"]
    /\ callsLeft = [i \in Inst |-> 0]
    /\ df = [i \in Inst |-> EmptyBatch]
    /\ period_start = [i \in Inst |-> [p \in Pairs |-> NoDate]]
    /\ todo = [i \in Inst |-> {}]
    /\ cur = [i \in Inst |-> NoPair]
    /\ groups = [i \in Inst |-> {}]
    /\ total_inserted = [i \in Inst |-> 0]
    /\ ret = [i \in Inst |-> -1]
    /\ hist = [i \in Inst |-> NoHist]
    /\ StagesOff
    /\ relation = Absent
    /\ txn = [i \in Inst |-> "idle"]
    /\ at = [i \in Inst |-> "off"]
    /\ op = [i \in Inst |-> NoCall]
    /\ pipe = NoPipe
    /\ \E output \in BOOLEAN, skip_filter \in BOOLEAN :
          full = [NoFull EXCEPT !.pc = "phase1", !.step = 1,
                                !.output = output,
                                !.skip_filter = skip_filter]

NextFull ==
    \/ run_step
    \/ phase1_return
    \/ pipeline_connect
    \/ pipeline_step1
    \/ pipeline_step2
    \/ pipeline_finally
    \/ phase2_return
    \/ full_return

SpecFull == InitFull /\ [][NextFull]_vars

(***************************************************************************)
(* What the claims speak of.                                               *)
(***************************************************************************)
\* the first day of quarter p[2] of year p[1]
FirstDay(p) == Date(p[1], 3 * (p[2] - 1) + 1, 1)

\* the first day of the quarter after p
FirstDayNext(p) ==
    IF p[2] = 4 THEN Date(p[1] + 1, 1, 1) ELSE Date(p[1], 3 * p[2] + 1, 1)

\* the store holds the partition {table}_{year}_q{quarter}
PartitionExists(p) ==
    \E pt \in partitions : pt.name = <<TableName, p[1], "q", p[2]>>

\* the store holds that partition with the range of exactly that quarter
PartitionCovers(p) ==
    \E pt \in partitions :
        /\ pt.name = <<TableName, p[1], "q", p[2]>>
        /\ pt.lo = FirstDay(p)
        /\ pt.hi = FirstDayNext(p)

\* _ensure_partitions_exist has returned in the current call of handler i
PartitionsReturned(i) == hist[i].partLoopsDone = 1

\* the call of handler i has returned, and not through its except clause
NormalReturn(i) ==
    /\ pc[i] = "done"
    /\ hist[i].partLoopsDone = 1
    /\ hist[i].loadFailed = NoPair

\* the pairs whose CREATE the store rejected for a reason other than a race
RejectedPairs(i) == {p \in Pairs : <<p, "other">> \in hist[i].failed}

\* the rows of (year, quarter) p that handler i has stored in the current call
StoredNow(i, p) == RowsOfPair(i, p) - hist[i].before[p]

\* C1: when a CREATE of the partition loop has failed, every partition whose
\* CREATE succeeded in the same call exists in the store once
\* _ensure_partitions_exist has returned.
C1_CreatedPartitionsSurvive ==
    \A i \in Inst :
        (PartitionsReturned(i) /\ hist[i].failed # {})
            => \A p \in hist[i].created : PartitionExists(p)

\* C2: after two concurrent ingests whose batches share a (year, quarter),
\* with no statement rejected by the store for a reason of its own, every
\* (year, quarter) of either batch has its partition and each call has
\* returned the row count of its own batch.
C2_ConcurrentIngest ==
    ( /\ \A i \in Inst : pc[i] = "done"
      /\ faults = 0
      /\ pairs_of(df[1]) \cap pairs_of(df[2]) # {} )
        => /\ \A i \in Inst : \A p \in pairs_of(df[i]) : PartitionExists(p)
           /\ \A i \in Inst : ret[i] = Len_df(df[i])

\* The same with the parent table in place before either call creates it:
\* the races on the partitions alone are tolerated.
C2_PartitionRacesTolerated ==
    ( /\ \A i \in Inst : pc[i] = "done"
      /\ faults = 0
      /\ \A i \in Inst : ~hist[i].parentRace )
        => /\ \A i \in Inst : \A p \in pairs_of(df[i]) : PartitionExists(p)
           /\ \A i \in Inst : ret[i] = Len_df(df[i])

\* C3: a handler whose CREATE TABLE of the parent failed because the other
\* handler created it first goes on to the partition loop.
C3_ParentRaceIsSuccess ==
    \A i \in Inst : hist[i].parentRace => hist[i].partLoops = 1

\* C4 as stated: in every call that reaches the load loop, each distinct
\* (year, quarter) group is handed to _copy_dataframe exactly once.
C4_EveryCallLoadsEveryGroup ==
    \A i \in Inst :
        (pc[i] = "done" /\ PartitionsReturned(i))
            => /\ Len(hist[i].loads) = Cardinality(pairs_of(df[i]))
               /\ {hist[i].loads[k] : k \in 1..Len(hist[i].loads)}
                    = pairs_of(df[i])

\* C4 as amended: the derivation, the parent-table check and the whole
\* partition loop have finished before the first load; each of the two runs
\* at most once per call and no group is loaded twice; in a call that returns
\* without taking the except clause each of the two has run exactly once and
\* every distinct group has been loaded exactly once.
C4_SetupBeforeLoads ==
    \A i \in Inst :
        LET h == hist[i]
            loaded == {h.loads[k] : k \in 1..Len(h.loads)}
        IN /\ h.parentChecks <= 1
           /\ h.partLoops <= 1
           /\ h.partLoopsDone <= h.partLoops
           /\ loaded \subseteq pairs_of(df[i])
           /\ Len(h.loads) = Cardinality(loaded)
           /\ h.loads # <<>> =>
                /\ h.parentChecks = 1
                /\ h.partLoops = 1
                /\ h.partLoopsDone = 1
                /\ todo[i] = {}
                /\ \A p \in pairs_of(df[i]) : period_start[i][p] = FirstDay(p)
           /\ NormalReturn(i) =>
                /\ h.parentChecks = 1
                /\ h.partLoops = 1
                /\ loaded = pairs_of(df[i])

\* a call that returned normally after creating a partition and two loads
C4_Witness ==
    \E i \in Inst :
        /\ NormalReturn(i)
        /\ Len(hist[i].loads) >= 2
        /\ hist[i].created # {}

\* C5: once _ensure_partitions_exist has returned with none of its CREATE
\* statements failed, every (year, quarter) of the batch has the partition
\* {table}_{year}_q{quarter} with the range [first day of the quarter, first
\* day of the next quarter).
C5_PartitionCoverage ==
    \A i \in Inst :
        (PartitionsReturned(i) /\ hist[i].failed = {})
            => \A p \in pairs_of(df[i]) : PartitionCovers(p)

\* a partition loop that created two partitions, Q4 among them, none failing
C5_Witness ==
    \E i \in Inst :
        /\ PartitionsReturned(i)
        /\ hist[i].failed = {}
        /\ Cardinality(hist[i].created) >= 2
        /\ <<BaseYear, 4>> \in hist[i].created

\* C6: a call in which the load of every group succeeded returns the sum of
\* the group sizes, which is the number of rows of the batch, and has added
\* exactly that many rows to the store.
C6_LoadCompleteness ==
    \A i \in Inst :
        (pc[i] = "done" /\ PartitionsReturned(i)
            /\ hist[i].loadedOk = pairs_of(df[i]))
            => /\ ret[i] = SumOver(df[i], pairs_of(df[i]))
               /\ ret[i] = Len_df(df[i])
               /\ SumOver([p \in Pairs |-> StoredNow(i, p)], Pairs) = ret[i]
               /\ \A p \in Pairs : StoredNow(i, p) = df[i][p]

\* a call that loaded two groups and returned their two or more rows
C6_Witness ==
    \E i \in Inst :
        /\ pc[i] = "done"
        /\ PartitionsReturned(i)
        /\ hist[i].loadedOk = pairs_of(df[i])
        /\ Cardinality(pairs_of(df[i])) >= 2
        /\ ret[i] >= 2

\* C7: when the load of a group fails the call has rolled back and returned
\* 0, every earlier group is stored in full, no row of the failed group is
\* stored and no later group has been attempted.
C7_FailedGroup ==
    \A i \in Inst :
        LET k == hist[i].loadFailed
        IN k # NoPair =>
            /\ pc[i] = "done"
            /\ ret[i] = 0
            /\ pend[i] = {}
            /\ StoredNow(i, k) = 0
            /\ \A g \in pairs_of(df[i]) :
                /\ PairLT(g, k) => StoredNow(i, g) = df[i][g]
                /\ PairLT(k, g) =>
                    /\ StoredNow(i, g) = 0
                    /\ \A n \in 1..Len(hist[i].loads) : hist[i].loads[n] # g

\* a load that failed after an earlier group of the call was stored
C7_Witness ==
    \E i \in Inst :
        /\ hist[i].loadFailed # NoPair
        /\ \E g \in pairs_of(df[i]) :
            /\ PairLT(g, hist[i].loadFailed)
            /\ StoredNow(i, g) > 0

\* C8 as stated: a call one of whose partitions the store refused to create
\* (not because it exists) returns 0.
C8_RejectedPartitionFailsIngest ==
    \A i \in Inst :
        (pc[i] = "done" /\ RejectedPairs(i) # {}) => ret[i] = 0

\* every stored row lies in the range of an existing partition, the one
\* named after its (year, quarter)
RowsHavePartitions ==
    \A r \in BagToSet(rows) :
        \E pt \in partitions :
            /\ pt.name = <<TableName, r.year, "q", r.quarter>>
            /\ DateLE(pt.lo, r.period_start)
            /\ DateLT(r.period_start, pt.hi)

\* C8 as amended: after a CREATE refused for a reason other than
\* already-exists the loop visits every remaining pair and returns; if that
\* partition is still missing when the call ends (no other instance created
\* it), the call has returned 0 and stored no row of that group; the store
\* never holds a row outside the range of an existing partition.
C8_RejectedPartition ==
    /\ RowsHavePartitions
    /\ \A i \in Inst :
        RejectedPairs(i) # {} =>
            /\ pc[i] = "done" =>
                /\ PartitionsReturned(i)
                /\ hist[i].visited = pairs_of(df[i])
            /\ \A p \in RejectedPairs(i) :
                (pc[i] = "done" /\ ~PartitionExists(p)) =>
                    /\ ret[i] = 0
                    /\ StoredNow(i, p) = 0

\* a call of two pairs or more, one of them refused by the store and still
\* missing, whose load of that group failed
C8_Witness ==
    \E i \in Inst : \E p \in RejectedPairs(i) :
        /\ pc[i] = "done"
        /\ ~PartitionExists(p)
        /\ hist[i].loadFailed = p
        /\ Cardinality(hist[i].visited) >= 2
        /\ rows # EmptyBag

\* the runner's run has returned success
RunnerDone == rpc = "done" /\ result = "success"

\* the quarters whose transition was committed
Counted == {st.k : st \in rhist.stats}

\* C9: after a run, every quarter of the window none of whose statements the
\* store rejected for a reason of its own has been attempted and counted, and
\* its joined rows are in the target, whatever happened to earlier quarters.
C9_LaterQuartersUnaffected ==
    RunnerDone =>
        \A k \in 1..Len(quarters) :
            /\ k \in rhist.attempted
            /\ k \notin rhist.rejected =>
                /\ k \in Counted
                /\ \A r \in SourceRows :
                    in_range(r, quarters[k]) =>
                        target[r] = source[r] * join_matches(r)

\* C10: for every quarter the runner has processed, filtered_count is at
\* most original_count.
C10_FilteredAtMostOriginal ==
    \A st \in rhist.stats : st.filtered <= st.original


\* C11: in every quarter the runner commits, the number of rows its INSERT
\* reported equals the filtered count it computed just before, also when
\* another session commits to the source or mapping table in between
C11_InsertedEqualsFiltered ==
    \A st \in rhist.stats : st.inserted = st.filtered

\* the setup statement of the current run has succeeded
TargetRebuilt == rpc \notin {"off", "ready"} /\ result # "failure"

\* the current run has returned with no statement rejected
CleanRun == rpc = "done" /\ result = "success" /\ rhist.rejected = {}

\* C12: once a run's setup statement has succeeded, the target holds the rows
\* this run has committed and no other row, so nothing that was in the target
\* before the run survives; and a second run on unchanged source and mapping
\* tables, both runs going through, leaves the target the first run left
C12_TargetRebuilt ==
    /\ TargetRebuilt => target = rhist.committed
    /\ (CleanRun /\ rhist.run = 2) => target = rhist.first

\* a second run has gone through after a first one that left rows in the target
C12_Witness ==
    /\ CleanRun
    /\ rhist.run = 2
    /\ rhist.first # NoRows
    /\ Cardinality(rhist.stats) >= 2

\* the (year, quarter) an entry of the list stands for
EntryPair(e) == <<e.year, e.quarter_num>>

\* b is the quarter right after a
Follows(a, b) ==
    \/ a[2] < 4 /\ b = <<a[1], a[2] + 1>>
    \/ a[2] = 4 /\ b = <<a[1] + 1, 1>>

\* what generate_quarters has returned for the window (start, end)
C13_Result ==
    gq.pc = "returned" =>
        LET start == <<window[1][4], window[1][2]>>
            end == <<window[2][4], window[2][2]>>
            n == Len(quarters)
        IN /\ quarters = generate_quarters(window[1], window[2])
           /\ IF PairLT(end, start)
              THEN quarters = <<>>
              ELSE /\ n >= 1
                   /\ EntryPair(quarters[1]) = start
                   /\ EntryPair(quarters[n]) = end
           /\ \A k \in 1..(n - 1) :
                Follows(EntryPair(quarters[k]), EntryPair(quarters[k + 1]))
           /\ \A k \in 1..n :
                /\ quarters[k].quarter_num \in Quarters
                /\ quarters[k].quarter =
                      Token(quarters[k].quarter_num, quarters[k].year)

\* C13: generate_quarters(start, end) returns, for every pair of well-formed
\* tokens; the list runs from start to end, both included, each entry the
\* quarter right after the one before it (Q1 of the next year after a Q4),
\* and it is empty when start is after end
C13_GenerateQuarters == []C13_Result /\ <>(gq.pc = "returned")

\* a returned list of six quarters or more that passes a Q4
C13_Witness ==
    /\ gq.pc = "returned"
    /\ Len(quarters) >= 6
    /\ \E k \in 1..(Len(quarters) - 1) : quarters[k].quarter_num = 4

\* C14: the end bound computed for a quarter is the start bound computed for
\* the quarter after it (January 1 of the next year for a Q4), in
\* _ensure_partitions_exist and in generate_quarters, and each range starts
\* before it ends: adjacent ranges neither overlap nor leave a gap
C14_AdjacentQuarters ==
    /\ "partitions" \in calc.done =>
          /\ calc.part.hi = calc.part_next.lo
          /\ DateLT(calc.part.lo, calc.part.hi)
          /\ calc.quarter = 4 => calc.part.hi = Date(calc.year + 1, 1, 1)
    /\ "quarters" \in calc.done =>
          /\ calc.entry.period_end = calc.entry_next.period_start
          /\ DateLT(calc.entry.period_start, calc.entry.period_end)
          /\ calc.quarter = 4 =>
                calc.entry.period_end = Date(calc.year + 1, 1, 1)

\* both computations have run on a Q4
C14_Witness ==
    /\ calc.quarter = 4
    /\ {"partitions", "quarters"} \subseteq calc.done
    /\ calc.part_next.lo.y = calc.year + 1

\* C15: the period_start ingest derives from (year, quarter) is the lower
\* bound of the partition range computed for the same (year, quarter); it lies
\* in that range and in the range of no other quarter
C15_PeriodStartIsLowerBound ==
    {"period_start", "partitions"} \subseteq calc.done =>
        /\ calc.period_start = calc.part.lo
        /\ DateLE(calc.part.lo, calc.period_start)
        /\ DateLT(calc.period_start, calc.part.hi)
        /\ \A y \in CalendarYears, k \in Quarters :
              (DateLE(partition_bounds(y, k).lo, calc.period_start)
                 /\ DateLT(calc.period_start, partition_bounds(y, k).hi))
              => <<y, k>> = <<calc.year, calc.quarter>>

\* the derivation and the partition bounds have both run on a quarter after Q1
C15_Witness ==
    /\ {"period_start", "partitions"} \subseteq calc.done
    /\ calc.quarter > 1
    /\ calc.period_start # NoDate

\* handler i is in its second call, after a first call whose
\* _ensure_parent_table_exists returned
SecondParentCall(i) == hist[i].call = 2 /\ hist[i].prev.parentOk

\* in the second call the parent table is there and no CREATE is sent for it
C16_NoSecondCreate ==
    \A i \in Inst : SecondParentCall(i) => parent /\ pc[i] # "parent_create"

\* the second _ensure_parent_table_exists goes from its lookup straight on to
\* the partition loop and leaves the store as it was
C16_LookupOnly ==
    \A i \in Inst :
        (SecondParentCall(i) /\ pc[i] = "parent_check" /\ pc'[i] # pc[i]) =>
            /\ pc'[i] = "partitions"
            /\ UNCHANGED <<parent, partitions, rows, pend>>

\* C16: _ensure_parent_table_exists called a second time for the same name
\* finds the table through the catalog lookup, sends no CREATE and changes
\* nothing in the store; there is one parent table
C16_ParentTableIdempotent == []C16_NoSecondCreate /\ [][C16_LookupOnly]_vars

\* a second call that has passed its lookup of the parent table, after a first
\* call that found or created the table
C16_Witness ==
    \E i \in Inst :
        /\ SecondParentCall(i)
        /\ hist[i].parentChecks = 1
        /\ pc[i] \in {"partitions", "load"}
        /\ parent

\* handler i has returned from a second call made with the batch of the first,
\* which went through with no statement failing
RepeatedIngest(i) ==
    /\ pc[i] = "done"
    /\ hist[i].call = 2
    /\ hist[i].prev.clean
    /\ df[i] = hist[i].prev.df

\* C17: a second ingest of the same batch sends no CREATE, for a partition or
\* for the parent table, and, its loads going through, returns what the first
\* returned and leaves every row of the batch stored twice
C17_RepeatedIngest ==
    \A i \in Inst :
        RepeatedIngest(i) =>
            /\ hist[i].created = {}
            /\ hist[i].failed = {}
            /\ ~hist[i].parentRace
            /\ hist[i].visited = pairs_of(df[i])
            /\ hist[i].loadFailed = NoPair =>
                  /\ ret[i] = hist[i].prev.ret
                  /\ ret[i] = Len_df(df[i])
                  /\ \A p \in Pairs : RowsOfPair(i, p) = 2 * df[i][p]

\* a second ingest of a batch of two groups has returned its two rows or more
C17_Witness ==
    \E i \in Inst :
        /\ RepeatedIngest(i)
        /\ hist[i].loadFailed = NoPair
        /\ Cardinality(pairs_of(df[i])) >= 2
        /\ ret[i] >= 2
        /\ RowsOf(i) = 2 * ret[i]

\* the step is a call of _copy_dataframe by handler i with an empty DataFrame
EmptyLoadCall(i) ==
    /\ pc[i] = "direct"
    /\ callsLeft'[i] = callsLeft[i] - 1
    /\ df'[i] = EmptyBatch

\* an empty call returns 0 and does not raise, sends neither COPY nor commit,
\* and leaves the store and the session as they were
C18_EmptyLoadStep ==
    \A i \in Inst :
        EmptyLoadCall(i) =>
            /\ ret'[i] = 0
            /\ pc'[i] = "direct"
            /\ hist'[i].loads = hist[i].loads
            /\ UNCHANGED <<parent, partitions, rows, pend, faults, connection>>

\* C18: _copy_dataframe called with an empty batch returns 0 without sending
\* a statement to the store, without committing and without raising; the
\* store and the session are unchanged
C18_EmptyLoad == [][C18_EmptyLoadStep]_vars

\* an empty call has returned 0 after a call that stored rows
C18_Witness ==
    \E i \in Inst :
        /\ pc[i] = "direct"
        /\ callsLeft[i] = 0
        /\ df[i] = EmptyBatch
        /\ ret[i] = 0
        /\ Len(hist[i].loads) = 1
        /\ rows # EmptyBag

\* C19: connect() does not raise; after an attempt that failed it has returned
\* False and the handler holds no session, whatever it held before; after one
\* that succeeded it has returned True and the handler holds the session just
\* opened
C19_Connect ==
    \A i \in Inst :
        api[i].op = "connect" =>
            /\ ~api[i].raised
            /\ pc[i] # "raised"
            /\ api[i].ret \in {"True", "False"}
            /\ api[i].ret = "False" => connection[i] = "none" /\ api[i].live = 0
            /\ api[i].ret = "True" =>
                  /\ connection[i] = "open"
                  /\ api[i].live = api[i].opened
                  /\ api[i].live \notin api[i].closed

\* a connect that failed right after one that succeeded: the session held
\* before is no longer referenced
C19_Witness ==
    \E i \in Inst :
        /\ api[i].op = "connect"
        /\ api[i].before = "connect"
        /\ api[i].ret = "False"
        /\ callsLeft[i] = MaxCalls - 2
        /\ api[i].opened = 1
        /\ connection[i] = "none"

\* after disconnect the handler holds no session and nothing was raised
C20_Disconnected ==
    \A i \in Inst :
        api[i].op = "disconnect" =>
            /\ connection[i] = "none"
            /\ api[i].live = 0
            /\ ~api[i].raised

\* a disconnect closes the session the handler holds and no other; with no
\* session, and so right after another disconnect, it changes nothing
C20_DisconnectStep ==
    \A i \in Inst :
        (callsLeft'[i] # callsLeft[i] /\ api'[i].op = "disconnect") =>
            IF connection[i] # "none"
            THEN /\ api'[i].closed = api[i].closed \cup {api[i].live}
                 /\ api[i].live # 0
            ELSE /\ connection'[i] = connection[i]
                 /\ api'[i].closed = api[i].closed
                 /\ api'[i].live = api[i].live
                 /\ api'[i].opened = api[i].opened

\* C20: disconnect() closes the session and clears the reference when there
\* is a session, and changes and raises nothing when there is none; after any
\* sequence of calls that ends with disconnect the handler holds no session,
\* and a second disconnect in a row changes nothing
C20_Disconnect == []C20_Disconnected /\ [][C20_DisconnectStep]_vars

\* two disconnects in a row after a connect: one session closed, none held
C20_Witness ==
    \E i \in Inst :
        /\ api[i].op = "disconnect"
        /\ api[i].before = "disconnect"
        /\ api[i].opened = 1
        /\ api[i].closed = {1}
        /\ connection[i] = "none"

\* handler i has made a call of generic operation name, which is over
Called(i, name) == at[i] = "ready" /\ op[i].name = name

\* the call of handler i had a session: one was there when the call began, or
\* an attempt to connect on demand succeeded
HadSession(i) == op[i].session \/ op[i].connected

GenericOps ==
    {"table_exists", "drop_table", "create_table", "insert_dataframe_regular"}

\* C21: a call of a generic operation that begins on a handler with no
\* session, and whose attempts to connect on demand all fail, sends no
\* statement, raises no exception to its caller and returns False or 0.
C21_NoSessionNoConnection ==
    \A i \in Inst :
        (at[i] = "ready" /\ op[i].name \in GenericOps /\ ~HadSession(i))
            => /\ op[i].sent = 0
               /\ op[i].raised = "none"
               /\ \/ op[i].ret = "False"
                  \/ op[i].ret = "int" /\ op[i].n = 0

\* C21, for create_table and insert_dataframe_regular only: their except
\* Exception catches the AttributeError
C21_CaughtByExceptException ==
    \A i \in Inst :
        (at[i] = "ready" /\ ~HadSession(i)
         /\ op[i].name \in {"create_table", "insert_dataframe_regular"})
            => /\ op[i].sent = 0
               /\ op[i].raised = "none"
               /\ \/ op[i].ret = "False"
                  \/ op[i].ret = "int" /\ op[i].n = 0

\* C22: a call of createTable on a handler with a session, in which the
\* store rejects no statement for a reason of its own, returns True when the
\* table existed when the call began.
C22_CreateTable ==
    \A i \in Inst :
        (Called(i, "create_table") /\ HadSession(i) /\ op[i].existed
         /\ ~op[i].rejected)
            => op[i].ret = "True"

\* C22, for calls none of whose statements is sent in an aborted
\* transaction: such a call returns True whether the table existed, was made
\* by the call or was made by another session while its CREATE waited; and a
\* call that returns False has not made the table
C22_FromCleanSession ==
    \A i \in Inst :
        /\ (Called(i, "create_table") /\ HadSession(i) /\ ~op[i].rejected
            /\ ~op[i].inAborted)
                => op[i].ret = "True"
        /\ (Called(i, "create_table") /\ op[i].ret = "False")
                => ~op[i].created

\* C23: a call of dropTable on a handler with a session, in which the store
\* rejects no statement for a reason of its own, returns True and leaves the
\* table absent (as long as no other handler has made it since).
C23_DropTable ==
    (Called(1, "drop_table") /\ HadSession(1) /\ ~op[1].rejected
     /\ op[2].name = "none")
        => /\ op[1].ret = "True"
           /\ ~relation.exists

\* C23, for calls whose statement is not sent in an aborted transaction
C23_FromCleanSession ==
    (Called(1, "drop_table") /\ HadSession(1) /\ ~op[1].rejected
     /\ ~op[1].inAborted /\ op[2].name = "none")
        => /\ op[1].ret = "True"
           /\ ~relation.exists

\* the quarters of the window the run did not commit
NotCounted == (1..Len(quarters)) \ Counted

\* C24: at the end of a run, the totals of original, filtered and inserted
\* rows are the sums, over the quarters whose insert was committed, of what
\* the three statements of the quarter count, and the target holds no row of
\* any other quarter of the window.
C24_TotalsOfCommittedQuarters ==
    (rpc = "done" /\ result = "success") =>
        /\ total_original =
              SumOver([k \in Counted |-> count_original_sql(quarters[k])],
                      Counted)
        /\ total_filtered =
              SumOver([k \in Counted |-> count_filtered_sql(quarters[k])],
                      Counted)
        /\ total_target =
              SumOver([k \in Counted |-> count_filtered_sql(quarters[k])],
                      Counted)
        /\ \A k \in NotCounted : \A r \in SourceRows :
              in_range(r, quarters[k]) => target[r] = 0

\* a run has ended in which one quarter was committed with rows and another,
\* which has rows to insert, failed
C24_Witness ==
    /\ rpc = "done"
    /\ result = "success"
    /\ total_target > 0
    /\ \E k \in NotCounted : count_filtered_sql(quarters[k]) > 0

\* Scenario C: a window of two quarters with rows of the source in both; no
\* row of the first quarter has its cusip in the mapping table, every row of
\* the second has it there once
ScenarioC ==
    /\ Len(quarters) = 2
    /\ count_original_sql(quarters[1]) > 0
    /\ count_original_sql(quarters[2]) > 0
    /\ \A r \in SourceRows :
          (source[r] > 0 /\ in_range(r, quarters[1])) => join_matches(r) = 0
    /\ \A r \in SourceRows :
          (source[r] > 0 /\ in_range(r, quarters[2])) => join_matches(r) = 1

\* the keep-rate printed for quarter k
RateOf(k) == (CHOOSE st \in rhist.stats : st.k = k).filter_rate

\* C25: every keep-rate is a quotient by a number other than 0, and is 0 for
\* a quarter with original_count = 0; in Scenario C the keep-rate of the first
\* quarter is 0%, that of the second is 100%, and
\* 0 < total_filtered < total_original, so the cumulative keep-rate lies
\* strictly between 0% and 100%.
C25_KeepRates ==
    /\ \A st \in rhist.stats :
          /\ st.filter_rate.den # 0
          /\ st.original = 0 => st.filter_rate.num = 0
    /\ (rpc = "done" /\ ScenarioC /\ Counted = {1, 2}) =>
          /\ RateOf(1).num = 0
          /\ RateOf(2).num = 100 * RateOf(2).den
          /\ 0 < total_filtered
          /\ total_filtered < total_original
          /\ rhist.filter_rate.den # 0
          /\ 0 < rhist.filter_rate.num
          /\ rhist.filter_rate.num < 100 * rhist.filter_rate.den

\* a run of Scenario C has ended with both quarters committed
C25_Witness ==
    /\ rpc = "done"
    /\ ScenarioC
    /\ Counted = {1, 2}

\* C27: after a run, with no other writer of the target table, every row
\* of the target has its period_start in [start of the first quarter of the
\* window, end of the last) and a cusip that is in the mapping table, and
\* total_inserted is the number of rows of the target.
C27_TargetWithinWindow ==
    (rpc = "done" /\ result = "success") =>
        /\ \A r \in SourceRows :
              target[r] > 0 =>
                  /\ quarters # <<>>
                  /\ DateLE(quarters[1].period_start, r.period_start)
                  /\ DateLT(r.period_start,
                            quarters[Len(quarters)].period_end)
                  /\ \E m \in mapping : m[1] = r.cusip
        /\ total_target = SumOver(target, SourceRows)

\* a run has ended that inserted rows, on a source that also holds a row
\* after the window whose cusip is in the mapping table
C27_Witness ==
    /\ rpc = "done"
    /\ result = "success"
    /\ total_target > 0
    /\ \E r \in SourceRows :
          /\ source[r] > 0
          /\ join_matches(r) > 0
          /\ r.period_start = quarters[Len(quarters)].period_end

\* C26: the runner is never about to send a statement on a session whose
\* transaction is aborted: a failure exit of the target setup or of a quarter
\* rolls the transaction back before control moves on.
C26_RollbackOnFailureExit ==
    ~(session = "aborted"
      /\ rpc \in {"count_original", "count_filtered", "filter_insert",
                  "commit"})

\* C26, for the generic operations: no statement of a call is sent in an
\* aborted transaction
C26_GenericOperations == \A i \in Inst : ~op[i].inAborted

\* C26, for create_table and drop_table alone: they leave no aborted
\* transaction behind
C26_CreateAndDropRollBack ==
    \A i \in Inst :
        (Called(i, "create_table") \/ Called(i, "drop_table"))
            => txn[i] # "aborted"

\* C30: after step1_load_ticker_to_cusip has returned success, the store
\* having rejected none of its statements, and before any later call, the
\* mapping table holds at most one row per (cusip, ticker) and has the
\* primary key its CREATE TABLE declared.
C30_MappingKeepsPrimaryKey ==
    (Called(1, "step1") /\ op[1].ret = "success" /\ ~op[1].rejected
     /\ op[2].name = "none")
        => /\ relation.exists
           /\ relation.key
           /\ \A k \in BagToSet(relation.rows) : CopiesIn(k, relation.rows) = 1

\* C30, without the primary key: what step 1 itself stores has one row per
\* (cusip, ticker), because of drop_duplicates
C30_StoredOnce ==
    (Called(1, "step1") /\ op[1].ret = "success" /\ ~op[1].rejected
     /\ op[2].name = "none")
        => \A k \in BagToSet(relation.rows) : CopiesIn(k, relation.rows) = 1

\* C28: in run_pipeline of the filter stage no step has run when connect()
\* answered False; step 2 has run only if step 1 returned success; and once
\* run_pipeline is over, by a return or by an exception of a step, the
\* session it opened is closed.
C28_RunPipeline ==
    /\ pipe.connect = "False" => (pipe.step1 = "none" /\ pipe.step2 = "none")
    /\ pipe.step2 # "none" => pipe.step1 = "success"
    /\ pipe.pc = "done" => pipe.session # "open"
    /\ (pipe.pc = "done" /\ pipe.connect = "True") => pipe.session = "closed"

\* run_pipeline is over after step 1 returned success and step 2 raised
C28_Witness ==
    /\ pipe.pc = "done"
    /\ pipe.step1 = "success"
    /\ pipe.step2 = "raised"
    /\ pipe.session = "closed"

\* C29: run_filter_pipeline is not called in a run of run_full_pipeline in
\* which a step of the indices parser that was not skipped ended in an
\* error.
C29_PhaseTwoNeedsPhaseOne ==
    (\E k \in Steps : full.stats[k] = "error") => pipe.pc = "off"

\* C29, for what run_full_pipeline takes for a failure of phase 1, an
\* exception that leaves run_indices_pipeline
C29_PhaseOneRaised ==
    full.phase1 = "failure" => pipe.pc = "off"
====
